---------------------------- MODULE Spec2Model ----------------------------
(***************************************************************************)
(* FF Calc PRO (src/bot_pro.py): the pricing / packaging engine of the     *)
(* bot: calculate_boxes_for_item, boxes_per_pallet_by_volume,              *)
(* party_palletization, party_shipping_cost, compute_sku_cost and the      *)
(* party totals of format_report (specification Spec); the conversation    *)
(* that builds a shipment, handler by handler (SessionSpec), also with two *)
(* users writing at once (TwoUsersSpec); and the loading of the catalog    *)
(* from the two workbooks (LoadSpec).                                      *)
(*                                                                         *)
(* Every number the engine handles is a Python float, an IEEE-754 binary64 *)
(* value, and every / and * and + rounds to nearest, ties to even.  The    *)
(* model keeps that: a float is a record [s, hi, lo, e] standing for       *)
(*      s * (hi * 2^27 + lo) * 2^e                                         *)
(* with a 53-bit mantissa (2^52 <= hi * 2^27 + lo < 2^53) unless it is 0,  *)
(* and FAdd, FMul and FDiv round the exact result as the hardware does.    *)
(* Python ints (box counts, pallet counts) are TLA+ integers.              *)
(***************************************************************************)
EXTENDS Integers, Sequences, FiniteSets, TLC

(***************************************************************************)
(* IEEE-754 binary64 arithmetic                                            *)
(***************************************************************************)

\* The mantissa is held in two limbs of 27 bits: W is the limb base.
W == 2 ^ 27

\* 2^k for the shifts below (k <= 30 keeps it inside a machine integer).
Pow2(k) == 2 ^ k

FZero == [s |-> 0, hi |-> 0, lo |-> 0, e |-> 0]

\* float("nan"): not a number.  Every operation on it gives it back and every
\* comparison with it is false.
NaN == [s |-> 2, hi |-> 0, lo |-> 0, e |-> 0]

\* The element of a one-element set.  An operation on floats is written
\*     Op(a, b) == The({OpOf(x, y) : x \in {a}, y \in {b}})
\* so that its operands are evaluated once, to values, before the operation
\* works on them: Python's call by value.
The(S) == CHOOSE x \in S : TRUE

\* Number of bits of n, for 0 <= n < 2^31.
BitLen(n) == Cardinality({k \in 0..30 : Pow2(k) <= n})

\* The float s * a for an int a with L bits, 0 < a < 2^31.
Normalize(s, a, L) ==
    [s  |-> s,
     hi |-> IF L <= 26 THEN a * Pow2(26 - L) ELSE a \div Pow2(L - 26),
     lo |-> IF L <= 26 THEN 0 ELSE (a % Pow2(L - 26)) * Pow2(53 - L),
     e  |-> L - 53]

IntToFloat(n) ==
    IF n = 0 THEN FZero
    ELSE IF n < 0 THEN Normalize(-1, -n, BitLen(-n))
    ELSE Normalize(1, n, BitLen(n))

\* The float of a Python int n with |n| < 2^31: float(n), exact.
FromInt(n) == The({IntToFloat(x) : x \in {n}})

\* Two-limb naturals <<hi, lo>> = hi * W + lo.
MLess(ah, al, bh, bl) == ah < bh \/ (ah = bh /\ al < bl)

\* Round the 53-bit mantissa <<hi, lo>> (exponent e, sign s) up by one unit when
\* up is TRUE: round-to-nearest-even's last step, with the carry into 2^53.
FRoundUp(s, hi, lo, e, up) ==
    IF ~up THEN [s |-> s, hi |-> hi, lo |-> lo, e |-> e]
    ELSE IF lo + 1 < W THEN [s |-> s, hi |-> hi, lo |-> lo + 1, e |-> e]
    ELSE IF hi + 1 < Pow2(26) THEN [s |-> s, hi |-> hi + 1, lo |-> 0, e |-> e]
    ELSE [s |-> s, hi |-> Pow2(25), lo |-> 0, e |-> e + 1]

\* r := 2 r and q := 2 q + bit on two-limb naturals.
Doubled(rh, rl, qh, ql, bit) ==
    <<2 * rh + (2 * rl) \div W, (2 * rl) % W,
      2 * qh + (2 * ql + bit) \div W, (2 * ql + bit) % W>>

\* One step of long division: st = <<rh, rl, qh, ql>> is the remainder r and the
\* quotient q so far, b = <<bh, bl>> the divisor; the step appends one quotient
\* bit: if r >= b then r := 2 (r - b), q := 2 q + 1 else r := 2 r, q := 2 q.
DivStep(st, bh, bl) ==
    IF MLess(st[1], st[2], bh, bl) THEN Doubled(st[1], st[2], st[3], st[4], 0)
    ELSE IF st[2] >= bl THEN Doubled(st[1] - bh, st[2] - bl, st[3], st[4], 1)
    ELSE Doubled(st[1] - bh - 1, st[2] + W - bl, st[3], st[4], 1)

\* n more steps of long division from st.  A remainder is never negative: the
\* test on st[1] only has each step's value computed before the next step.
RECURSIVE DivSteps(_, _, _, _)
DivSteps(st, bh, bl, n) ==
    IF n = 0 \/ st[1] < 0 THEN st
    ELSE DivSteps(DivStep(st, bh, bl), bh, bl, n - 1)

\* The 54 quotient bits st = <<rh, rl, qh, ql>> rounded to 53: the last bit is the
\* round bit, a non-zero remainder the sticky bit.
QuotientRound(s, e, st) ==
    FRoundUp(s, st[3] \div 2, st[4] \div 2 + (st[3] % 2) * Pow2(26), e - 52,
             st[4] % 2 = 1 /\ (st[1] # 0 \/ st[2] # 0 \/ (st[4] \div 2) % 2 = 1))

\* a / b for floats, b # 0: the exact quotient rounded to nearest, ties to even.
\* The quotient of the mantissas is brought into [1, 2) first.
Quotient(a, b) ==
    IF a.s = 0 THEN FZero
    ELSE IF MLess(a.hi, a.lo, b.hi, b.lo)
    THEN QuotientRound(a.s * b.s, a.e - b.e - 1,
             DivSteps(<<2 * a.hi + (2 * a.lo) \div W, (2 * a.lo) % W, 0, 0>>,
                      b.hi, b.lo, 54))
    ELSE QuotientRound(a.s * b.s, a.e - b.e,
             DivSteps(<<a.hi, a.lo, 0, 0>>, b.hi, b.lo, 54))

FDiv(a, b) ==
    The({IF x = NaN \/ y = NaN THEN NaN ELSE Quotient(x, y) : x \in {a}, y \in {b}})

\* The two limbs <<h, l>> of x1 * y1 * 2^28 + mid * 2^14 + x0y0.
Mul27Sum(x1y1, mid, x0y0) ==
    <<2 * x1y1 + mid \div 8192 + ((mid % 8192) * 16384 + x0y0) \div W,
      ((mid % 8192) * 16384 + x0y0) % W>>

\* x * y for 0 <= x, y < 2^27, as the two limbs <<h, l>> of the exact product.
Mul27(x, y) ==
    Mul27Sum((x \div 16384) * (y \div 16384),
             (x \div 16384) * (y % 16384) + (x % 16384) * (y \div 16384),
             (x % 16384) * (y % 16384))

\* Round the mantissa h * W + low (low < 2 W) with its round and sticky bits.
RoundLimbs(s, e, h, low, rbit, sticky) ==
    FRoundUp(s, h + low \div W, low % W, e,
             rbit = 1 /\ (sticky \/ (low % W) % 2 = 1))

\* Round the 106-bit (p3 >= 2^24) or 105-bit product p3 p2 p1 p0 to 53 bits.
ProductRound(s, e, p0, p1, p2, p3) ==
    IF p3 >= Pow2(24)
    THEN RoundLimbs(s, e + 53, 2 * p3, 2 * p2 + p1 \div Pow2(26),
                    (p1 \div Pow2(25)) % 2, p0 # 0 \/ p1 % Pow2(25) # 0)
    ELSE RoundLimbs(s, e + 52, 4 * p3, 4 * p2 + p1 \div Pow2(25),
                    (p1 \div Pow2(24)) % 2, p0 # 0 \/ p1 % Pow2(24) # 0)

\* Carry the column sums t1, t2 of the partial products into the limbs p1, p2, p3.
ProductCarry(s, e, p0, t1, t2, h3) ==
    ProductRound(s, e, p0, t1 % W, (t2 + t1 \div W) % W, h3 + (t2 + t1 \div W) \div W)

\* The four partial products of the limbs, summed by column.
ProductLimbs(s, e, LL, LH, HL, HH) ==
    ProductCarry(s, e, LL[2], LL[1] + LH[2] + HL[2], LH[1] + HL[1] + HH[2], HH[1])

\* a * b for floats: the exact product of the mantissas, rounded to 53 bits, ties
\* to even.
Product(a, b) ==
    IF a.s = 0 \/ b.s = 0 THEN FZero
    ELSE ProductLimbs(a.s * b.s, a.e + b.e, Mul27(a.lo, b.lo), Mul27(a.lo, b.hi),
                      Mul27(a.hi, b.lo), Mul27(a.hi, b.hi))

FMul(a, b) ==
    The({IF x = NaN \/ y = NaN THEN NaN ELSE Product(x, y) : x \in {a}, y \in {b}})

\* The shifted mantissa <<Bh, Bl0>> with the bits that were shifted out kept as a
\* sticky last bit.
Sticky(Bh, Bl0, lost) == <<Bh, IF lost /\ Bl0 % 2 = 0 THEN Bl0 + 1 ELSE Bl0>>

\* <<Yh, Yl>> shifted right by d bits, d >= 0.
ShiftRightSticky(Yh, Yl, d) ==
    IF d < 27
    THEN Sticky(Yh \div Pow2(d), Yl \div Pow2(d) + (Yh % Pow2(d)) * Pow2(27 - d),
                Yl % Pow2(d) # 0)
    ELSE IF d <= 56
    THEN Sticky(0, Yh \div Pow2(d - 27), Yh % Pow2(d - 27) # 0 \/ Yl # 0)
    ELSE Sticky(0, 0, TRUE)

\* Round the 56-bit (or, after a carry, 57-bit) sum to 53 bits, ties to even.
RoundRest(e, mh, ml, rest, half) ==
    FRoundUp(1, mh, ml, e, rest > half \/ (rest = half /\ ml % 2 = 1))

AddRound(e, Sl, Sh) ==
    IF Sh >= Pow2(29)
    THEN RoundRest(e + 1, Sh \div 16, Sl \div 16 + (Sh % 16) * Pow2(23), Sl % 16, 8)
    ELSE RoundRest(e, Sh \div 8, Sl \div 8 + (Sh % 8) * Pow2(24), Sl % 8, 4)

AddAligned(e, Ah, Al, B) ==
    AddRound(e, (Al + B[2]) % W, Ah + B[1] + (Al + B[2]) \div W)

\* x + y for floats x, y >= 0 with x.e >= y.e: the mantissas are widened by three
\* bits (guard, round, sticky), y's is shifted right by the difference of the
\* exponents, and the sum is rounded to 53 bits.
FAddOrdered(x, y) ==
    AddAligned(x.e, 8 * x.hi + (8 * x.lo) \div W, (8 * x.lo) % W,
               ShiftRightSticky(8 * y.hi + (8 * y.lo) \div W, (8 * y.lo) % W,
                                x.e - y.e))

\* a + b for floats a, b >= 0 (every amount of money the engine adds is one).
Sum(a, b) ==
    IF a.s = 0 THEN b
    ELSE IF b.s = 0 THEN a
    ELSE IF a.e >= b.e THEN FAddOrdered(a, b) ELSE FAddOrdered(b, a)

FAdd(a, b) ==
    The({IF x = NaN \/ y = NaN THEN NaN ELSE Sum(x, y) : x \in {a}, y \in {b}})

\* a < b for floats that are numbers.
Less(a, b) ==
    IF a.s # b.s THEN a.s < b.s
    ELSE IF a.s = 0 THEN FALSE
    ELSE IF a.s = 1 THEN a.e < b.e \/ (a.e = b.e /\ MLess(a.hi, a.lo, b.hi, b.lo))
    ELSE b.e < a.e \/ (a.e = b.e /\ MLess(b.hi, b.lo, a.hi, a.lo))

\* a < b and a <= b for floats.
FLess(a, b) == \E x \in {a}, y \in {b} : x # NaN /\ y # NaN /\ Less(x, y)

FLeq(a, b) == \E x \in {a}, y \in {b} : x # NaN /\ y # NaN /\ ~Less(y, x)

\* Python's max(a, b) for floats: b only when b > a.
FMax(a, b) ==
    The({IF x # NaN /\ y # NaN /\ Less(x, y) THEN y ELSE x : x \in {a}, y \in {b}})

\* Python's max(a, b) for ints.
Max(a, b) == The({IF x < y THEN y ELSE x : x \in {a}, y \in {b}})

\* The integer part of |a| and whether |a| has a fractional part, |a| < 2^31.
FIntPart(a) ==
    IF a.s = 0 \/ a.e <= -53 THEN 0
    ELSE IF a.e >= 0 THEN (a.hi * W + a.lo) * Pow2(a.e)
    ELSE IF -a.e >= 27 THEN a.hi \div Pow2(-a.e - 27)
    ELSE a.hi * Pow2(27 + a.e) + a.lo \div Pow2(-a.e)

FHasFrac(a) ==
    IF a.s = 0 \/ a.e >= 0 THEN FALSE
    ELSE IF a.e <= -53 THEN TRUE
    ELSE IF -a.e >= 27 THEN a.hi % Pow2(-a.e - 27) # 0 \/ a.lo # 0
    ELSE a.lo % Pow2(-a.e) # 0

Ceil(a) ==
    IF a.s >= 0 THEN FIntPart(a) + (IF FHasFrac(a) THEN 1 ELSE 0) ELSE -FIntPart(a)

Floor(a) ==
    IF a.s >= 0 THEN FIntPart(a) ELSE -FIntPart(a) - (IF FHasFrac(a) THEN 1 ELSE 0)

\* int(math.ceil(a)) and int(math.floor(a)).
FCeil(a) == The({Ceil(x) : x \in {a}})

FFloor(a) == The({Floor(x) : x \in {a}})

\* float("n/d" written as a decimal): the float nearest to n / d.
FromRat(n, d) == FDiv(FromInt(n), FromInt(d))

(***************************************************************************)
(* Constants of the program                                                *)
(***************************************************************************)

MAX_SKU == 10

BOX_PRICE == FromInt(110)

\* A dimension triple of floats from three ints.
Dims(l, w, h) == <<FromInt(l), FromInt(w), FromInt(h)>>

\* The keys are the button texts, "X" for the multiplication sign.
WAREHOUSE_BOXES ==
    [text \in {"60X40X40", "40X30X30"} |->
        IF text = "60X40X40" THEN Dims(60, 40, 40) ELSE Dims(40, 30, 30)]

BASE_PALLET_BOX == Dims(60, 40, 40)

BASE_BOXES_PER_PALLET == 16

\* Python's None, and a value that is present: an optional rate is <<>> or <<r>>.
None == <<>>

Some(x) == <<x>>

\* What a function that raised leaves in place of its result: math.ceil and
\* math.floor raise ValueError on a NaN.
ValueError == [raised |-> "ValueError"]

Raised(r) == DOMAIN r = {"raised"}

(***************************************************************************)
(* The catalog: the module globals SERVICES, FF_WAREHOUSES, TK_WAREHOUSES  *)
(* and CONST, set once by the loader, and the last call of an engine       *)
(* function with its arguments and its result.  The sessions: for every    *)
(* user the FSM state and the data the storage keeps for that user (what   *)
(* get_data returns and update_data writes), the requests that the last    *)
(* handler run sent to the manager chat, and the quote that it showed in   *)
(* its answer to the user.  pc is where the process is: "load" before     *)
(* DATA LOAD, "failed" when DATA LOAD raised, "polling" when the handlers  *)
(* serve.                                                                  *)
(***************************************************************************)
VARIABLES SERVICES, FF_WAREHOUSES, TK_WAREHOUSES, CONST, call,
          state, storage, manager_chat, answer, pc

vars == <<SERVICES, FF_WAREHOUSES, TK_WAREHOUSES, CONST, call,
          state, storage, manager_chat, answer, pc>>

catalog == <<SERVICES, FF_WAREHOUSES, TK_WAREHOUSES, CONST>>

session == <<state, storage, manager_chat, answer>>

\* WAREHOUSE_NAMES = sorted(set(FF_WAREHOUSES) | set(TK_WAREHOUSES)), as a set.
WAREHOUSE_NAMES == DOMAIN FF_WAREHOUSES \cup DOMAIN TK_WAREHOUSES

\* The users the storage holds an entry for.
Users == DOMAIN state

\* The FSM state of a user outside a session (no state set, or finished).
NoState == "None"

(***************************************************************************)
(* HELPERS                                                                 *)
(* A local variable of the Python function is the parameter of a local     *)
(* operator, bound where the Python assigns it.                            *)
(***************************************************************************)

\* float(d[0]) * float(d[1]) * float(d[2])
vol(d) == FMul(FMul(d[1], d[2]), d[3])

\* boxes_per_pallet_by_volume with "m or BASE_BOXES_PER_PALLET" for max(1, m): a
\* carton larger than the pallet gets the base capacity.
boxes_per_pallet_or_base(box_dims) ==
    LET pallet_volume == FMul(FromInt(BASE_BOXES_PER_PALLET), vol(BASE_PALLET_BOX))
        box_volume    == vol(box_dims)
        m             == FFloor(FDiv(pallet_volume, box_volume))
    IN  IF FLeq(box_volume, FZero) \/ m = 0 THEN BASE_BOXES_PER_PALLET ELSE m

boxes_per_pallet_by_volume(box_dims) ==
    LET by_volume(pallet_volume, box_volume) ==
            IF FLeq(box_volume, FZero) THEN BASE_BOXES_PER_PALLET
            ELSE IF box_volume = NaN THEN ValueError
            ELSE Max(1, FFloor(FDiv(pallet_volume, box_volume)))
    IN  by_volume(FMul(FromInt(BASE_BOXES_PER_PALLET), vol(BASE_PALLET_BOX)),
                  vol(box_dims))

\* calculate_boxes_for_item with "and" for "or" in the oversize test: an item is
\* oversize only when it exceeds the carton on every axis.
calculate_boxes_all_axes(qty, item_dims, box_dims) ==
    LET item_volume   == vol(item_dims)
        items_per_box == IF FLeq(item_volume, FZero) THEN FromInt(1)
                         ELSE FMax(FromInt(1), FDiv(vol(box_dims), item_volume))
    IN  IF /\ FLess(box_dims[1], item_dims[1])
           /\ FLess(box_dims[2], item_dims[2])
           /\ FLess(box_dims[3], item_dims[3])
        THEN [boxes |-> FCeil(qty), is_oversize |-> TRUE, items_per_box |-> FromInt(1)]
        ELSE [boxes |-> FCeil(FDiv(qty, items_per_box)), is_oversize |-> FALSE,
              items_per_box |-> items_per_box]

\* Returns the tuple (boxes, is_oversize, items_per_box) as a record, or raises
\* ValueError where math.ceil is given a NaN.
calculate_boxes_for_item(qty, item_dims, box_dims) ==
    LET counted(x, is_oversize, items_per_box) ==
            IF x = NaN THEN ValueError
            ELSE [boxes |-> FCeil(x), is_oversize |-> is_oversize,
                  items_per_box |-> items_per_box]
        packed(items_per_box) == counted(FDiv(qty, items_per_box), FALSE, items_per_box)
        clamped(items_per_box) ==
            IF FLess(items_per_box, FromInt(1)) THEN packed(FromInt(1))
            ELSE packed(items_per_box)
        by_volume(item_volume, box_volume) ==
            IF FLeq(item_volume, FZero) THEN packed(FromInt(1))
            ELSE clamped(FDiv(box_volume, item_volume))
    IN  IF \/ FLess(box_dims[1], item_dims[1])
           \/ FLess(box_dims[2], item_dims[2])
           \/ FLess(box_dims[3], item_dims[3])
        THEN counted(qty, TRUE, FromInt(1))
        ELSE by_volume(vol(item_dims), vol(box_dims))

\* party_palletization with two switches, each a slip of the pen: "<=" for "<" in
\* the threshold test, and total_boxes // max_on_pallet + 1 for the ceiling.
palletization_variant(total_boxes, box_dims, at_threshold, floor_plus_one) ==
    LET max_on_pallet == boxes_per_pallet_by_volume(box_dims)
        below   == IF at_threshold
                   THEN FLeq(FromInt(total_boxes), CONST.PALLET_THRESHOLD_BOXES)
                   ELSE FLess(FromInt(total_boxes), CONST.PALLET_THRESHOLD_BOXES)
        pallets == IF floor_plus_one THEN total_boxes \div max_on_pallet + 1
                   ELSE FCeil(FDiv(FromInt(total_boxes), FromInt(max_on_pallet)))
    IN  IF below
        THEN [pallets |-> 0, max_on_pallet |-> max_on_pallet,
              pallet_cost |-> FZero, stretch_cost |-> FZero]
        ELSE [pallets |-> pallets, max_on_pallet |-> max_on_pallet,
              pallet_cost |-> FMul(FromInt(pallets), CONST.PALLET),
              stretch_cost |-> FMul(FromInt(pallets), CONST.STRETCH)]

party_palletization_at_threshold(total_boxes, box_dims) ==
    palletization_variant(total_boxes, box_dims, TRUE, FALSE)

party_palletization_floor_plus_one(total_boxes, box_dims) ==
    palletization_variant(total_boxes, box_dims, FALSE, TRUE)

\* Returns (pallets, max_boxes_on_pallet, pallet_cost, stretch_cost), or raises
\* the ValueError of boxes_per_pallet_by_volume.
party_palletization(total_boxes, box_dims) ==
    LET palletized(max_on_pallet, pallets) ==
            [pallets |-> pallets, max_on_pallet |-> max_on_pallet,
             pallet_cost |-> FMul(FromInt(pallets), CONST.PALLET),
             stretch_cost |-> FMul(FromInt(pallets), CONST.STRETCH)]
        with_capacity(max_on_pallet) ==
            IF FLess(FromInt(total_boxes), CONST.PALLET_THRESHOLD_BOXES)
            THEN [pallets |-> 0, max_on_pallet |-> max_on_pallet,
                  pallet_cost |-> FZero, stretch_cost |-> FZero]
            ELSE palletized(max_on_pallet,
                     FCeil(FDiv(FromInt(total_boxes), FromInt(max_on_pallet))))
    IN  IF vol(box_dims) = NaN THEN boxes_per_pallet_by_volume(box_dims)
        ELSE with_capacity(boxes_per_pallet_by_volume(box_dims))

\* party_shipping_cost with three switches, each a slip of the pen: the pallet
\* rate is used whenever it is configured (the test "pallets > 0" is dropped), the
\* entry fee is left out of the sum, and the hub leg is billed to a direct-carrier
\* warehouse too.
shipping_cost_variant(warehouse_name, total_boxes, pallets,
                      pallet_rate_first, no_entry, ff_via_hub) ==
    LET to_tk == FMul(FromInt(total_boxes), CONST.TO_TK_PER_BOX)
    IN  IF warehouse_name \in DOMAIN TK_WAREHOUSES
        THEN LET tk    == TK_WAREHOUSES[warehouse_name]
                 by_pallet == /\ tk.to_warehouse_per_pallet # None
                              /\ (pallet_rate_first \/ pallets > 0)
                 to_wh == IF by_pallet
                          THEN FMul(FromInt(pallets), tk.to_warehouse_per_pallet[1])
                          ELSE FMul(FromInt(total_boxes), tk.to_warehouse_per_box[1])
             IN  IF ~by_pallet /\ tk.to_warehouse_per_box = None
                 THEN [raised |-> "no rate to the warehouse"]
                 ELSE [raised |-> "", ship_type |-> "tk",
                       leg |-> IF by_pallet THEN "pallet" ELSE "box",
                       to_tk |-> to_tk, to_wh |-> to_wh, entry |-> tk.entry_fee,
                       cost |-> IF no_entry THEN FAdd(to_tk, to_wh)
                                ELSE FAdd(FAdd(to_tk, to_wh), tk.entry_fee)]
        ELSE IF warehouse_name \notin DOMAIN FF_WAREHOUSES
        THEN [raised |-> "warehouse not found"]
        ELSE LET cost == FMul(FromInt(total_boxes),
                              FF_WAREHOUSES[warehouse_name].ship_per_box)
             IN  [raised |-> "", ship_type |-> "ff", leg |-> "box",
                  cost |-> IF ff_via_hub /\ pallets > 0 THEN FAdd(to_tk, cost) ELSE cost]

party_shipping_cost_pallet_rate_first(warehouse_name, total_boxes, pallets) ==
    shipping_cost_variant(warehouse_name, total_boxes, pallets, TRUE, FALSE, FALSE)

party_shipping_cost_no_entry(warehouse_name, total_boxes, pallets) ==
    shipping_cost_variant(warehouse_name, total_boxes, pallets, FALSE, TRUE, FALSE)

party_shipping_cost_ff_via_hub(warehouse_name, total_boxes, pallets) ==
    shipping_cost_variant(warehouse_name, total_boxes, pallets, FALSE, FALSE, TRUE)

\* party_shipping_cost with two more switches: a per-box rate that is not
\* configured counts as 0 ("or 0.0") instead of raising, and a warehouse of
\* neither table is billed as a direct-carrier one at rate 0 instead of raising.
shipping_cost_lenient(warehouse_name, total_boxes, pallets, box_rate_or_zero,
                      unknown_at_zero) ==
    LET to_tk == FMul(FromInt(total_boxes), CONST.TO_TK_PER_BOX)
    IN  IF warehouse_name \in DOMAIN TK_WAREHOUSES
        THEN LET tk    == TK_WAREHOUSES[warehouse_name]
                 by_pallet == pallets > 0 /\ tk.to_warehouse_per_pallet # None
                 to_wh == IF by_pallet
                          THEN FMul(FromInt(pallets), tk.to_warehouse_per_pallet[1])
                          ELSE IF tk.to_warehouse_per_box = None THEN FZero
                          ELSE FMul(FromInt(total_boxes), tk.to_warehouse_per_box[1])
             IN  IF ~by_pallet /\ tk.to_warehouse_per_box = None /\ ~box_rate_or_zero
                 THEN [raised |-> "no rate to the warehouse"]
                 ELSE [raised |-> "", ship_type |-> "tk",
                       leg |-> IF by_pallet THEN "pallet" ELSE "box",
                       to_tk |-> to_tk, to_wh |-> to_wh, entry |-> tk.entry_fee,
                       cost |-> FAdd(FAdd(to_tk, to_wh), tk.entry_fee)]
        ELSE IF warehouse_name \notin DOMAIN FF_WAREHOUSES
        THEN IF unknown_at_zero
             THEN [raised |-> "", ship_type |-> "ff", leg |-> "box", cost |-> FZero]
             ELSE [raised |-> "warehouse not found"]
        ELSE [raised |-> "", ship_type |-> "ff", leg |-> "box",
              cost |-> FMul(FromInt(total_boxes),
                            FF_WAREHOUSES[warehouse_name].ship_per_box)]

party_shipping_cost_box_rate_or_zero(warehouse_name, total_boxes, pallets) ==
    shipping_cost_lenient(warehouse_name, total_boxes, pallets, TRUE, FALSE)

party_shipping_cost_unknown_at_zero(warehouse_name, total_boxes, pallets) ==
    shipping_cost_lenient(warehouse_name, total_boxes, pallets, FALSE, TRUE)

\* Returns (ship_type, cost, details) or raises RuntimeError: the record holds the
\* type, the cost, the leg to the warehouse that the details text names ("pallet"
\* or "box") and its parts; a raise is the record [raised |-> <which>].
party_shipping_cost(warehouse_name, total_boxes, pallets) ==
    LET tk_cost(leg, to_tk, to_wh, entry) ==
            [raised |-> "", ship_type |-> "tk", leg |-> leg,
             to_tk |-> to_tk, to_wh |-> to_wh, entry |-> entry,
             cost |-> FAdd(FAdd(to_tk, to_wh), entry)]
        via_tk(tk, to_tk) ==
            IF pallets > 0 /\ tk.to_warehouse_per_pallet # None
            THEN tk_cost("pallet", to_tk,
                         FMul(FromInt(pallets), tk.to_warehouse_per_pallet[1]),
                         tk.entry_fee)
            ELSE IF tk.to_warehouse_per_box = None
            THEN [raised |-> "no rate to the warehouse"]
            ELSE tk_cost("box", to_tk,
                         FMul(FromInt(total_boxes), tk.to_warehouse_per_box[1]),
                         tk.entry_fee)
    IN  IF warehouse_name \in DOMAIN TK_WAREHOUSES
        THEN via_tk(TK_WAREHOUSES[warehouse_name],
                    FMul(FromInt(total_boxes), CONST.TO_TK_PER_BOX))
        ELSE IF warehouse_name \notin DOMAIN FF_WAREHOUSES
        THEN [raised |-> "warehouse not found"]
        ELSE [raised |-> "", ship_type |-> "ff", leg |-> "box",
              cost |-> FMul(FromInt(total_boxes),
                            FF_WAREHOUSES[warehouse_name].ship_per_box)]

\* The loop of compute_sku_cost with a name that SERVICES does not hold entered as
\* a labor item at price 0 (SERVICES.get(svc_name, default)) instead of skipped.
RECURSIVE sku_services_unknown_at_zero(_, _, _)
sku_services_unknown_at_zero(names, i, acc) ==
    LET svc == IF names[i] \in DOMAIN SERVICES THEN SERVICES[names[i]]
               ELSE [price |-> FZero, cat |-> "rabota", unit |-> "sht"]
        row == [name |-> names[i], price |-> svc.price, unit |-> svc.unit,
                cat |-> svc.cat]
    IN  IF i > Len(names) THEN acc
        ELSE sku_services_unknown_at_zero(names, i + 1,
                 IF svc.cat = "raskhodniki"
                 THEN [acc EXCEPT !.cons_items = Append(@, row),
                                  !.cons_per_unit = FAdd(@, svc.price)]
                 ELSE [acc EXCEPT !.work_items = Append(@, row),
                                  !.work_per_unit = FAdd(@, svc.price)])

\* The loop of compute_sku_cost over sku["services_names"]: acc holds work_items,
\* cons_items, work_per_unit and cons_per_unit after the first i - 1 names.
RECURSIVE sku_services(_, _, _)
sku_services(names, i, acc) ==
    LET row(svc) == [name |-> names[i], price |-> svc.price, unit |-> svc.unit,
                     cat |-> svc.cat]
        added(svc) ==
            IF svc.cat = "raskhodniki"
            THEN [acc EXCEPT !.cons_items = Append(@, row(svc)),
                             !.cons_per_unit = FAdd(@, svc.price)]
            ELSE [acc EXCEPT !.work_items = Append(@, row(svc)),
                             !.work_per_unit = FAdd(@, svc.price)]
    IN  IF i > Len(names) THEN acc
        ELSE IF names[i] \notin DOMAIN SERVICES THEN sku_services(names, i + 1, acc)
        ELSE sku_services(names, i + 1, added(SERVICES[names[i]]))

\* compute_sku_cost with two switches, each a slip of the pen: the cartons are
\* charged whoever supplies them (the test "not use_client_boxes" is dropped), and
\* the consumables are left out of the subtotal.
sku_cost_variant(sku, box_dims, use_client_boxes, charge_client, no_cons) ==
    LET bx  == calculate_boxes_for_item(sku.qty, sku.dimensions, box_dims)
        svc == sku_services(sku.services_names, 1,
                   [work_items |-> <<>>, cons_items |-> <<>>,
                    work_per_unit |-> FZero, cons_per_unit |-> FZero])
        work_total == FMul(svc.work_per_unit, sku.qty)
        cons_total == FMul(svc.cons_per_unit, sku.qty)
        boxes_cost == IF (charge_client \/ ~use_client_boxes) /\ ~bx.is_oversize
                      THEN FMul(FromInt(bx.boxes), BOX_PRICE) ELSE FZero
    IN  [qty |-> sku.qty, item_dims |-> sku.dimensions, boxes |-> bx.boxes,
         items_per_box |-> bx.items_per_box, is_oversize |-> bx.is_oversize,
         work_items |-> svc.work_items, cons_items |-> svc.cons_items,
         work_per_unit |-> svc.work_per_unit, cons_per_unit |-> svc.cons_per_unit,
         work_total |-> work_total, cons_total |-> cons_total,
         boxes_cost |-> boxes_cost,
         sku_total_no_ship |-> IF no_cons THEN FAdd(work_total, boxes_cost)
                               ELSE FAdd(FAdd(work_total, cons_total), boxes_cost)]

compute_sku_cost_charge_client(sku, box_dims, use_client_boxes) ==
    sku_cost_variant(sku, box_dims, use_client_boxes, TRUE, FALSE)

compute_sku_cost_no_cons(sku, box_dims, use_client_boxes) ==
    sku_cost_variant(sku, box_dims, use_client_boxes, FALSE, TRUE)

compute_sku_cost(sku, box_dims, use_client_boxes) ==
    LET totals(bx, svc, work_total, cons_total, boxes_cost) ==
            [qty |-> sku.qty, item_dims |-> sku.dimensions, boxes |-> bx.boxes,
             items_per_box |-> bx.items_per_box, is_oversize |-> bx.is_oversize,
             work_items |-> svc.work_items, cons_items |-> svc.cons_items,
             work_per_unit |-> svc.work_per_unit,
             cons_per_unit |-> svc.cons_per_unit,
             work_total |-> work_total, cons_total |-> cons_total,
             boxes_cost |-> boxes_cost,
             sku_total_no_ship |-> FAdd(FAdd(work_total, cons_total), boxes_cost)]
        costs(bx, svc) ==
            IF Raised(bx) THEN bx
            ELSE totals(bx, svc, FMul(svc.work_per_unit, sku.qty),
                        FMul(svc.cons_per_unit, sku.qty),
                        IF ~use_client_boxes /\ ~bx.is_oversize
                        THEN FMul(FromInt(bx.boxes), BOX_PRICE) ELSE FZero)
    IN  costs(calculate_boxes_for_item(sku.qty, sku.dimensions, box_dims),
              sku_services(sku.services_names, 1,
                  [work_items |-> <<>>, cons_items |-> <<>>,
                   work_per_unit |-> FZero, cons_per_unit |-> FZero]))

\* The loop of format_report over data["skus"]: acc holds sku_calcs,
\* total_sum_no_ship, total_boxes and oversize_any after the first i - 1 items.
RECURSIVE report_skus(_, _, _, _, _)
report_skus(skus, box_dims, use_client_boxes, i, acc) ==
    LET added(calc) ==
            IF Raised(calc) THEN calc
            ELSE [sku_calcs |-> Append(acc.sku_calcs, calc),
                  total_sum_no_ship |-> FAdd(acc.total_sum_no_ship,
                                             calc.sku_total_no_ship),
                  total_boxes |-> acc.total_boxes + calc.boxes,
                  oversize_any |-> acc.oversize_any \/ calc.is_oversize]
    IN  IF i > Len(skus) \/ Raised(acc) THEN acc
        ELSE report_skus(skus, box_dims, use_client_boxes, i + 1,
                 added(compute_sku_cost(skus[i], box_dims, use_client_boxes)))

\* format_report with the palletization moved into the loop over the line items:
\* the pallets are those of the last item's boxes, not of the party's.
format_report_per_item_pallets(data) ==
    LET acc  == report_skus(data.skus, data.box_dims, data.use_client_boxes, 1,
                    [sku_calcs |-> <<>>, total_sum_no_ship |-> FZero,
                     total_boxes |-> 0, oversize_any |-> FALSE])
        pal  == party_palletization(acc.sku_calcs[Len(acc.sku_calcs)].boxes,
                                    data.box_dims)
        ship == party_shipping_cost(data.warehouse, acc.total_boxes, pal.pallets)
    IN  IF ship.raised # "" THEN [raised |-> ship.raised]
        ELSE [raised |-> "", sku_calcs |-> acc.sku_calcs,
              total_sum_no_ship |-> acc.total_sum_no_ship,
              total_boxes |-> acc.total_boxes, oversize_any |-> acc.oversize_any,
              pallets |-> pal.pallets, max_on_pallet |-> pal.max_on_pallet,
              pallet_cost |-> pal.pallet_cost, stretch_cost |-> pal.stretch_cost,
              ship_type |-> ship.ship_type, ship_cost |-> ship.cost,
              party_total |-> FAdd(FAdd(FAdd(acc.total_sum_no_ship, pal.pallet_cost),
                                        pal.stretch_cost), ship.cost)]

\* What format_report computes from the session data before it renders the text:
\* the per-item calculations and the party totals, or what was raised: the
\* RuntimeError of party_shipping_cost or the ValueError of a NaN.
format_report(data) ==
    LET totals(acc, pal, ship) ==
            IF ship.raised # "" THEN [raised |-> ship.raised]
            ELSE [raised |-> "", sku_calcs |-> acc.sku_calcs,
                  total_sum_no_ship |-> acc.total_sum_no_ship,
                  total_boxes |-> acc.total_boxes, oversize_any |-> acc.oversize_any,
                  pallets |-> pal.pallets, max_on_pallet |-> pal.max_on_pallet,
                  pallet_cost |-> pal.pallet_cost, stretch_cost |-> pal.stretch_cost,
                  ship_type |-> ship.ship_type, ship_cost |-> ship.cost,
                  party_total |-> FAdd(FAdd(FAdd(acc.total_sum_no_ship, pal.pallet_cost),
                                            pal.stretch_cost), ship.cost)]
        shipped(acc, pal) ==
            IF Raised(pal) THEN pal
            ELSE totals(acc, pal,
                     party_shipping_cost(data.warehouse, acc.total_boxes, pal.pallets))
        palletized(acc) ==
            IF Raised(acc) THEN acc
            ELSE shipped(acc, party_palletization(acc.total_boxes, data.box_dims))
    IN  palletized(report_skus(data.skus, data.box_dims, data.use_client_boxes, 1,
                       [sku_calcs |-> <<>>, total_sum_no_ship |-> FZero,
                        total_boxes |-> 0, oversize_any |-> FALSE]))

\* The loop of format_manager_request over data["skus"]: acc holds the per-item
\* calculations, total_sum_no_ship and total_boxes after the first i - 1 items.
RECURSIVE request_skus(_, _, _, _, _)
request_skus(skus, box_dims, use_client_boxes, i, acc) ==
    LET added(calc) ==
            IF Raised(calc) THEN calc
            ELSE [sku_calcs |-> Append(acc.sku_calcs, calc),
                  total_sum_no_ship |-> FAdd(acc.total_sum_no_ship,
                                             calc.sku_total_no_ship),
                  total_boxes |-> acc.total_boxes + calc.boxes]
    IN  IF i > Len(skus) \/ Raised(acc) THEN acc
        ELSE request_skus(skus, box_dims, use_client_boxes, i + 1,
                 added(compute_sku_cost(skus[i], box_dims, use_client_boxes)))

\* format_manager_request with a grand total that leaves the shipping cost out.
format_manager_request_total_without_shipping(data) ==
    LET totals(acc, pal, ship) ==
            IF ship.raised # "" THEN [raised |-> ship.raised]
            ELSE [raised |-> "", sku_calcs |-> acc.sku_calcs,
                  total_sum_no_ship |-> acc.total_sum_no_ship,
                  total_boxes |-> acc.total_boxes,
                  pallets |-> pal.pallets, max_on_pallet |-> pal.max_on_pallet,
                  pallet_cost |-> pal.pallet_cost, stretch_cost |-> pal.stretch_cost,
                  ship_type |-> ship.ship_type, ship_cost |-> ship.cost,
                  party_total |-> FAdd(FAdd(acc.total_sum_no_ship, pal.pallet_cost),
                                       pal.stretch_cost)]
        shipped(acc, pal) ==
            IF Raised(pal) THEN pal
            ELSE totals(acc, pal,
                     party_shipping_cost(data.warehouse, acc.total_boxes, pal.pallets))
        palletized(acc) ==
            IF Raised(acc) THEN acc
            ELSE shipped(acc, party_palletization(acc.total_boxes, data.box_dims))
    IN  palletized(request_skus(data.skus, data.box_dims, data.use_client_boxes, 1,
                       [sku_calcs |-> <<>>, total_sum_no_ship |-> FZero,
                        total_boxes |-> 0]))

\* What format_manager_request computes from the session data before it renders
\* the text, or what was raised.
format_manager_request(data) ==
    LET totals(acc, pal, ship) ==
            IF ship.raised # "" THEN [raised |-> ship.raised]
            ELSE [raised |-> "", sku_calcs |-> acc.sku_calcs,
                  total_sum_no_ship |-> acc.total_sum_no_ship,
                  total_boxes |-> acc.total_boxes,
                  pallets |-> pal.pallets, max_on_pallet |-> pal.max_on_pallet,
                  pallet_cost |-> pal.pallet_cost, stretch_cost |-> pal.stretch_cost,
                  ship_type |-> ship.ship_type, ship_cost |-> ship.cost,
                  party_total |-> FAdd(FAdd(FAdd(acc.total_sum_no_ship, pal.pallet_cost),
                                            pal.stretch_cost), ship.cost)]
        shipped(acc, pal) ==
            IF Raised(pal) THEN pal
            ELSE totals(acc, pal,
                     party_shipping_cost(data.warehouse, acc.total_boxes, pal.pallets))
        palletized(acc) ==
            IF Raised(acc) THEN acc
            ELSE shipped(acc, party_palletization(acc.total_boxes, data.box_dims))
    IN  palletized(request_skus(data.skus, data.box_dims, data.use_client_boxes, 1,
                       [sku_calcs |-> <<>>, total_sum_no_ship |-> FZero,
                        total_boxes |-> 0]))

(***************************************************************************)
(* The catalogs and the inputs the engine is called with                   *)
(***************************************************************************)

\* Bounds of the model.
MaxQty == 21

MaxBoxes == 20

MaxPallets == 3

MaxSkus == 3

\* services.xlsx: name -> (price, category, unit); the categories are the two
\* the loader keeps, "rabota" (labor) and "raskhodniki" (consumables).
ServicesSheet ==
    [markirovka |-> [price |-> FromRat(1, 10), cat |-> "rabota", unit |-> "sht"],
     upakovka   |-> [price |-> FromRat(2, 10), cat |-> "rabota", unit |-> "sht"],
     paket      |-> [price |-> FromRat(3, 10), cat |-> "raskhodniki", unit |-> "sht"],
     plenka     |-> [price |-> FromRat(5, 2),  cat |-> "raskhodniki", unit |-> "m"]]

\* shipping.xlsx, sheet FF: the rows FF_SHIP_BOX_...; the last names a warehouse
\* that the TK sheet names too.
FFSheet ==
    [ff_a |-> [ship_per_box |-> FromInt(50)],
     ff_b |-> [ship_per_box |-> FromRat(71, 2)],
     tk_box |-> [ship_per_box |-> FromInt(10)]]

\* shipping.xlsx, sheet TK: the rows TK_...; a warehouse with only an ENTRY row
\* has neither rate.
TKSheet ==
    [tk_both   |-> [to_warehouse_per_box |-> Some(FromInt(30)),
                    to_warehouse_per_pallet |-> Some(FromInt(400)),
                    entry_fee |-> FromInt(500)],
     tk_box    |-> [to_warehouse_per_box |-> Some(FromRat(51, 2)),
                    to_warehouse_per_pallet |-> None,
                    entry_fee |-> FZero],
     tk_pallet |-> [to_warehouse_per_box |-> None,
                    to_warehouse_per_pallet |-> Some(FromInt(300)),
                    entry_fee |-> FromInt(150)],
     tk_entry  |-> [to_warehouse_per_box |-> None,
                    to_warehouse_per_pallet |-> None,
                    entry_fee |-> FromInt(200)]]

\* CONST: the defaults of the loader (no constant row on the sheet), and sheets
\* that set the four constants.
ConstSheets ==
    {[PALLET |-> FZero, STRETCH |-> FZero,
      PALLET_THRESHOLD_BOXES |-> FromInt(10), TO_TK_PER_BOX |-> FromInt(100)],
     [PALLET |-> FromInt(350), STRETCH |-> FromRat(241, 2),
      PALLET_THRESHOLD_BOXES |-> FromInt(10), TO_TK_PER_BOX |-> FromInt(80)],
     [PALLET |-> FromInt(200), STRETCH |-> FromInt(50),
      PALLET_THRESHOLD_BOXES |-> FromRat(5, 2), TO_TK_PER_BOX |-> FromRat(1, 10)]}

WarehouseArgs == DOMAIN TKSheet \cup DOMAIN FFSheet \cup {"nowhere"}

\* Quantities: sku_qty stores any float > 0.
Qtys == {FromInt(n) : n \in 1..MaxQty} \cup {FromRat(1, 2), FromRat(5, 2)}

\* Item dimensions: the three templates, exact sizes, and the degenerate triples
\* (a zero or a negative dimension) the function accepts as arguments.
ItemDims ==
    {Dims(10, 10, 5), Dims(25, 20, 5), Dims(30, 40, 5), Dims(1, 1, 5),
     Dims(70, 10, 5), Dims(2, 28, 40), Dims(10, 0, 5), Dims(-1, 1, 1)}

\* Carton dimensions: the two of the warehouse, a customer's, and degenerate ones.
BoxDims ==
    {Dims(60, 40, 40), Dims(40, 30, 30), Dims(50, 40, 40), Dims(1, 1, 7),
     Dims(120, 80, 160), Dims(200, 100, 100), Dims(0, 40, 40), Dims(-60, 40, 40)}

\* The line items a session can hold: quantity > 0, dimensions > 0, services
\* chosen from the catalog, no name twice.
SkuSet ==
    {[name |-> "a", qty |-> FromInt(1), dimensions |-> Dims(10, 10, 5),
      services_names |-> <<"markirovka">>],
     [name |-> "b", qty |-> FromInt(1), dimensions |-> Dims(25, 20, 5),
      services_names |-> <<"upakovka", "plenka">>],
     [name |-> "c", qty |-> FromInt(1), dimensions |-> Dims(10, 10, 5),
      services_names |-> <<"paket">>],
     [name |-> "d", qty |-> FromInt(12), dimensions |-> Dims(70, 10, 5),
      services_names |-> <<>>]}

\* Line items whose selection holds names that SERVICES does not: compute_sku_cost
\* takes any list of names.
StaleSkus ==
    {[name |-> "e", qty |-> FromRat(5, 2), dimensions |-> Dims(10, 10, 5),
      services_names |-> <<"stale", "markirovka", "gone", "paket">>],
     [name |-> "f", qty |-> FromInt(3), dimensions |-> Dims(25, 20, 5),
      services_names |-> <<"stale">>]}

\* The sequences of 1..n elements of S.
SeqsUpTo(S, n) == UNION {[1..k -> S] : k \in 1..n}

\* The session data format_report is called with: the warehouse is one of
\* WAREHOUSE_NAMES; warehouse cartons are one of WAREHOUSE_BOXES.
ReportData ==
    {[skus |-> sk, warehouse |-> wh, use_client_boxes |-> bx[1], box_dims |-> bx[2]] :
        sk \in SeqsUpTo(SkuSet, MaxSkus),
        wh \in {"tk_both", "tk_pallet", "tk_entry", "ff_b"},
        bx \in {<<FALSE, Dims(60, 40, 40)>>, <<TRUE, Dims(40, 30, 30)>>}}

(***************************************************************************)
(* The state machine: the catalog is loaded, then engine functions are     *)
(* called, one at a time.                                                  *)
(***************************************************************************)

Idle == [op |-> "idle"]

Init ==
    /\ SERVICES = ServicesSheet
    /\ FF_WAREHOUSES = FFSheet
    /\ TK_WAREHOUSES = TKSheet
    /\ CONST \in ConstSheets
    /\ call = Idle
    /\ state = [user \in {"user1"} |-> NoState]
    /\ storage = [user \in {"user1"} |-> <<>>]
    /\ manager_chat = <<>>
    /\ answer = <<>>
    /\ pc = "polling"

CallBoxesPerPallet ==
    /\ call = Idle
    /\ \E box_dims \in BoxDims :
         call' = [op |-> "boxes_per_pallet_by_volume", box_dims |-> box_dims,
                  ret |-> boxes_per_pallet_by_volume(box_dims)]
    /\ UNCHANGED <<catalog, pc, session>>

CallCalculateBoxes ==
    /\ call = Idle
    /\ \E qty \in Qtys, item_dims \in ItemDims, box_dims \in BoxDims :
         call' = [op |-> "calculate_boxes_for_item", qty |-> qty,
                  item_dims |-> item_dims, box_dims |-> box_dims,
                  ret |-> calculate_boxes_for_item(qty, item_dims, box_dims)]
    /\ UNCHANGED <<catalog, pc, session>>

CallPalletization ==
    /\ call = Idle
    /\ \E total_boxes \in 1..MaxBoxes, box_dims \in BoxDims :
         call' = [op |-> "party_palletization", total_boxes |-> total_boxes,
                  box_dims |-> box_dims,
                  ret |-> party_palletization(total_boxes, box_dims)]
    /\ UNCHANGED <<catalog, pc, session>>

CallShippingCost ==
    /\ call = Idle
    /\ \E warehouse_name \in WarehouseArgs, total_boxes \in 1..MaxBoxes,
          pallets \in 0..MaxPallets :
         call' = [op |-> "party_shipping_cost", warehouse_name |-> warehouse_name,
                  total_boxes |-> total_boxes, pallets |-> pallets,
                  ret |-> party_shipping_cost(warehouse_name, total_boxes, pallets)]
    /\ UNCHANGED <<catalog, pc, session>>

CallSkuCost ==
    /\ call = Idle
    /\ \E sku \in SkuSet \cup StaleSkus, box_dims \in BoxDims,
          use_client_boxes \in BOOLEAN :
         call' = [op |-> "compute_sku_cost", sku |-> sku, box_dims |-> box_dims,
                  use_client_boxes |-> use_client_boxes,
                  ret |-> compute_sku_cost(sku, box_dims, use_client_boxes)]
    /\ UNCHANGED <<catalog, pc, session>>

CallFormatReport ==
    /\ call = Idle
    /\ \E data \in ReportData :
         call' = [op |-> "format_report", data |-> data, ret |-> format_report(data)]
    /\ UNCHANGED <<catalog, pc, session>>

CallFormatManagerRequest ==
    /\ call = Idle
    /\ \E data \in ReportData :
         call' = [op |-> "format_manager_request", data |-> data,
                  ret |-> format_manager_request(data)]
    /\ UNCHANGED <<catalog, pc, session>>

Return ==
    /\ call # Idle
    /\ call' = Idle
    /\ UNCHANGED <<catalog, pc, session>>

Next ==
    \/ CallBoxesPerPallet
    \/ CallCalculateBoxes
    \/ CallPalletization
    \/ CallShippingCost
    \/ CallSkuCost
    \/ CallFormatReport
    \/ CallFormatManagerRequest
    \/ Return

Spec == Init /\ [][Next]_vars

(***************************************************************************)
(* Properties of the engine.  A state with call.op = f holds one call of f: *)
(* its arguments and, in call.ret, what it returned.                        *)
(***************************************************************************)

\* An item dimension is strictly greater than the carton's on the same axis.
Exceeds(item_dims, box_dims) == \E i \in 1..3 : FLess(box_dims[i], item_dims[i])

\* n = ceil(x): the least integer n with n >= x.
IsCeil(n, x) == FLeq(x, FromInt(n)) /\ FLess(FromInt(n - 1), x)

\* All three dimensions are positive.
Positive(d) == \A i \in 1..3 : FLess(FZero, d[i])

\* C1: for every quantity > 0, item and carton, if an item dimension is strictly
\* greater than the carton's on the same axis then calculate_boxes_for_item
\* returns oversize, box count ceil(qty) and items-per-box 1, and compute_sku_cost
\* gives carton cost 0, whatever the volumes and whoever supplies the cartons.
Thm_C1 ==
    /\ (call.op = "calculate_boxes_for_item" /\ Exceeds(call.item_dims, call.box_dims))
          => /\ call.ret.is_oversize
             /\ IsCeil(call.ret.boxes, call.qty)
             /\ call.ret.items_per_box = FromInt(1)
    /\ (call.op = "compute_sku_cost" /\ Exceeds(call.sku.dimensions, call.box_dims))
          => /\ call.ret.is_oversize
             /\ IsCeil(call.ret.boxes, call.sku.qty)
             /\ call.ret.items_per_box = FromInt(1)
             /\ call.ret.boxes_cost = FZero

\* An oversize item smaller in volume than the warehouse's carton was priced: 12
\* units of 70x10x5 against 60x40x40 are 12 boxes at carton cost 0.
Wit_C1 ==
    /\ call.op = "compute_sku_cost"
    /\ ~call.use_client_boxes
    /\ call.box_dims = BASE_PALLET_BOX
    /\ Exceeds(call.sku.dimensions, call.box_dims)
    /\ FLess(vol(call.sku.dimensions), vol(call.box_dims))
    /\ call.ret.boxes = 12
    /\ call.ret.boxes_cost = FZero

\* C2: party_palletization (called, as the program calls it, with a total box
\* count >= 1) returns pallet count 0 with pallet cost 0 and stretch cost 0 exactly
\* when the total box count is strictly below PALLET_THRESHOLD_BOXES; at or above
\* the threshold the pallet count is at least 1; with threshold 10, 9 boxes give
\* 0 pallets and 10 boxes at capacity 16 give 1 pallet.
Thm_C2 ==
    call.op = "party_palletization" =>
        /\ FLess(FromInt(call.total_boxes), CONST.PALLET_THRESHOLD_BOXES)
              <=> /\ call.ret.pallets = 0
                  /\ call.ret.pallet_cost = FZero
                  /\ call.ret.stretch_cost = FZero
        /\ FLeq(CONST.PALLET_THRESHOLD_BOXES, FromInt(call.total_boxes))
              => call.ret.pallets >= 1
        /\ (CONST.PALLET_THRESHOLD_BOXES = FromInt(10) /\ call.total_boxes = 9)
              => call.ret.pallets = 0
        /\ (/\ CONST.PALLET_THRESHOLD_BOXES = FromInt(10)
            /\ call.total_boxes = 10
            /\ call.ret.max_on_pallet = 16)
              => call.ret.pallets = 1

\* The boundary: threshold 10, 10 boxes of 60x40x40 (capacity 16), one pallet.
Wit_C2 ==
    /\ call.op = "party_palletization"
    /\ CONST.PALLET_THRESHOLD_BOXES = FromInt(10)
    /\ call.total_boxes = 10
    /\ call.ret.max_on_pallet = 16
    /\ call.ret.pallets = 1

\* C3: whenever palletization occurs (total box count >= threshold), the pallet
\* count p is the least integer with p * capacity >= total box count, where the
\* capacity is boxes_per_pallet_by_volume(carton), and pallet cost = p * PALLET
\* and stretch cost = p * STRETCH.
Thm_C3 ==
    (/\ call.op = "party_palletization"
     /\ FLeq(CONST.PALLET_THRESHOLD_BOXES, FromInt(call.total_boxes)))
        => /\ call.ret.max_on_pallet = boxes_per_pallet_by_volume(call.box_dims)
           /\ call.ret.pallets * call.ret.max_on_pallet >= call.total_boxes
           /\ (call.ret.pallets - 1) * call.ret.max_on_pallet < call.total_boxes
           /\ call.ret.pallet_cost = FMul(FromInt(call.ret.pallets), CONST.PALLET)
           /\ call.ret.stretch_cost = FMul(FromInt(call.ret.pallets), CONST.STRETCH)

\* A full pallet: 16 boxes at capacity 16 are one pallet, at 350 and 120.5 each.
Wit_C3 ==
    /\ call.op = "party_palletization"
    /\ call.total_boxes = 16
    /\ call.ret.max_on_pallet = 16
    /\ call.ret.pallets = 1
    /\ CONST.PALLET = FromInt(350)
    /\ call.ret.pallet_cost = FromInt(350)
    /\ call.ret.stretch_cost = FromRat(241, 2)

\* C4: for a TK warehouse, party_shipping_cost bills the leg to the warehouse as
\* pallets * per-pallet rate if and only if pallets > 0 and a per-pallet rate is
\* configured; in every other case it bills total boxes * per-box rate (and
\* raises when that rate is not configured).
Thm_C4 ==
    (call.op = "party_shipping_cost" /\ call.warehouse_name \in DOMAIN TK_WAREHOUSES)
        => IF /\ call.pallets > 0
              /\ TK_WAREHOUSES[call.warehouse_name].to_warehouse_per_pallet # None
           THEN /\ call.ret.raised = ""
                /\ call.ret.leg = "pallet"
                /\ call.ret.to_wh =
                      FMul(FromInt(call.pallets),
                           TK_WAREHOUSES[call.warehouse_name].to_warehouse_per_pallet[1])
           ELSE IF TK_WAREHOUSES[call.warehouse_name].to_warehouse_per_box = None
           THEN call.ret.raised # ""
           ELSE /\ call.ret.raised = ""
                /\ call.ret.leg = "box"
                /\ call.ret.to_wh =
                      FMul(FromInt(call.total_boxes),
                           TK_WAREHOUSES[call.warehouse_name].to_warehouse_per_box[1])

\* Both rates are configured and no pallet was formed: 5 boxes at 30 per box.
Wit_C4 ==
    /\ call.op = "party_shipping_cost"
    /\ call.warehouse_name = "tk_both"
    /\ call.pallets = 0
    /\ call.total_boxes = 5
    /\ call.ret.leg = "box"
    /\ call.ret.to_wh = FromInt(150)

\* C5: for a TK warehouse whose shipping resolves, the cost is
\* (total boxes * TO_TK_PER_BOX) + (leg to the warehouse) + (entry fee): the hub
\* leg is per box even when the warehouse leg is per pallet, and the entry fee is
\* the warehouse's, added once, whatever the box and pallet counts.
Thm_C5 ==
    (/\ call.op = "party_shipping_cost"
     /\ call.warehouse_name \in DOMAIN TK_WAREHOUSES
     /\ call.ret.raised = "")
        => /\ call.ret.ship_type = "tk"
           /\ call.ret.to_tk = FMul(FromInt(call.total_boxes), CONST.TO_TK_PER_BOX)
           /\ call.ret.entry = TK_WAREHOUSES[call.warehouse_name].entry_fee
           /\ call.ret.cost = FAdd(FAdd(call.ret.to_tk, call.ret.to_wh), call.ret.entry)

\* 20 boxes on 2 pallets to a warehouse billed per pallet: 20 * 80 to the hub,
\* 2 * 400 to the warehouse, 500 to enter.
Wit_C5 ==
    /\ call.op = "party_shipping_cost"
    /\ call.warehouse_name = "tk_both"
    /\ call.total_boxes = 20
    /\ call.pallets = 2
    /\ CONST.TO_TK_PER_BOX = FromInt(80)
    /\ call.ret.leg = "pallet"
    /\ call.ret.cost = FromInt(2900)

\* C6: for an FF warehouse (one the TK sheet does not name), party_shipping_cost
\* returns total boxes * the warehouse's per-box rate for every pallet count, with
\* no pallet leg, no hub leg and no entry fee: the cost is the same for every
\* pallet count, and rate 50 with 20 boxes gives 1000.
Thm_C6 ==
    (/\ call.op = "party_shipping_cost"
     /\ call.warehouse_name \notin DOMAIN TK_WAREHOUSES
     /\ call.warehouse_name \in DOMAIN FF_WAREHOUSES)
        => /\ call.ret.raised = ""
           /\ call.ret.ship_type = "ff"
           /\ call.ret.cost = FMul(FromInt(call.total_boxes),
                                   FF_WAREHOUSES[call.warehouse_name].ship_per_box)
           /\ \A p \in 0..MaxPallets :
                 party_shipping_cost(call.warehouse_name, call.total_boxes, p).cost
                    = call.ret.cost
           /\ (/\ FF_WAREHOUSES[call.warehouse_name].ship_per_box = FromInt(50)
               /\ call.total_boxes = 20)
                 => call.ret.cost = FromInt(1000)

\* Rate 50, 20 boxes on 2 pallets: 1000.
Wit_C6 ==
    /\ call.op = "party_shipping_cost"
    /\ call.warehouse_name = "ff_a"
    /\ call.total_boxes = 20
    /\ call.pallets = 2
    /\ call.ret.cost = FromInt(1000)

\* The permutations of 1..n, and a list reordered by one.
Perms(n) == {p \in [1..n -> 1..n] : \A i, j \in 1..n : p[i] = p[j] => i = j}

Permuted(skus, p) == [i \in 1..Len(skus) |-> skus[p[i]]]

\* C7 as the spec states it: for every shipment and every permutation of its line
\* items, the party's total box count, pallet count, shipping cost and grand total
\* are those of the original order.
CE_C7 ==
    (call.op = "format_report" /\ call.ret.raised = "")
        => \A p \in Perms(Len(call.data.skus)) :
              LET other == format_report([call.data EXCEPT
                                             !.skus = Permuted(call.data.skus, p)])
              IN  /\ other.raised = ""
                  /\ other.total_boxes = call.ret.total_boxes
                  /\ other.pallets = call.ret.pallets
                  /\ other.ship_cost = call.ret.ship_cost
                  /\ other.party_total = call.ret.party_total

\* C8: for cartons A and B with positive dimensions and volume(A) < volume(B),
\* boxes_per_pallet_by_volume(A) >= boxes_per_pallet_by_volume(B).
Thm_C8 ==
    (call.op = "boxes_per_pallet_by_volume" /\ Positive(call.box_dims))
        => \A B \in BoxDims :
              (Positive(B) /\ FLess(vol(call.box_dims), vol(B)))
                 => call.ret >= boxes_per_pallet_by_volume(B)

\* The 60x40x40 carton holds 16 to a pallet, and a larger carton of the inputs
\* strictly fewer.
Wit_C8 ==
    /\ call.op = "boxes_per_pallet_by_volume"
    /\ call.box_dims = BASE_PALLET_BOX
    /\ call.ret = 16
    /\ \E B \in BoxDims :
          /\ Positive(B)
          /\ FLess(vol(call.box_dims), vol(B))
          /\ boxes_per_pallet_by_volume(B) < call.ret

\* The volume of the pallet: 16 cartons of 60x40x40.
PalletVolume == FMul(FromInt(16), vol(Dims(60, 40, 40)))

\* C9 as the spec states it: for every carton boxes_per_pallet_by_volume returns
\* floor(16 * volume(60,40,40) / volume(carton)) raised to a minimum of 1: so it is
\* 16 for the 60x40x40 carton and never below 1.  (A carton of volume 0, where the
\* quotient is not defined, is held to the minimum only.)
CE_C9 ==
    call.op = "boxes_per_pallet_by_volume" =>
        /\ call.ret >= 1
        /\ call.box_dims = Dims(60, 40, 40) => call.ret = 16
        /\ vol(call.box_dims) # FZero
              => call.ret = Max(1, FFloor(FDiv(PalletVolume, vol(call.box_dims))))

\* C10 as the spec states it: for every item that is not oversize,
\* calculate_boxes_for_item returns items-per-box = max(1, volume(carton) /
\* volume(item)), 1 when the item volume is zero or negative, and the box count is
\* the least integer n with n * items-per-box >= qty: with the ratio of the volumes
\* above 1 that is the least n with n * volume(carton) >= qty * volume(item), with
\* items-per-box 1 it is ceil(qty).  The products are of small integers and halves,
\* which floats multiply exactly.
CE_C10 ==
    (call.op = "calculate_boxes_for_item" /\ ~call.ret.is_oversize)
        => /\ ~Exceeds(call.item_dims, call.box_dims)
           /\ call.ret.items_per_box =
                 IF FLeq(vol(call.item_dims), FZero) THEN FromInt(1)
                 ELSE FMax(FromInt(1), FDiv(vol(call.box_dims), vol(call.item_dims)))
           /\ IF call.ret.items_per_box = FromInt(1)
              THEN IsCeil(call.ret.boxes, call.qty)
              ELSE /\ FLeq(FMul(call.qty, vol(call.item_dims)),
                           FMul(FromInt(call.ret.boxes), vol(call.box_dims)))
                   /\ FLess(FMul(FromInt(call.ret.boxes - 1), vol(call.box_dims)),
                            FMul(call.qty, vol(call.item_dims)))

\* C11: compute_sku_cost charges carton cost = box count * 110 (a positive
\* amount) for a line item when the cartons are the warehouse's and the item is
\* not oversize; the carton cost is 0 whenever the cartons are the customer's or
\* the item is oversize.
Thm_C11 ==
    call.op = "compute_sku_cost" =>
        IF ~call.use_client_boxes /\ ~call.ret.is_oversize
        THEN /\ call.ret.boxes_cost = FMul(FromInt(call.ret.boxes), FromInt(110))
             /\ FLess(FZero, call.ret.boxes_cost)
        ELSE call.ret.boxes_cost = FZero

\* 12 units of 10x10x5 would fill one customer's carton of 60x40x40: not oversize,
\* one box, and no carton is charged.
Wit_C11 ==
    /\ call.op = "compute_sku_cost"
    /\ call.use_client_boxes
    /\ ~call.ret.is_oversize
    /\ call.ret.boxes = 1
    /\ call.ret.boxes_cost = FZero

\* The prices of the names of a selection that SERVICES holds in one category
\* (consumable or labor), added up in the order of the selection from sum.
RECURSIVE PriceSum(_, _, _, _)
PriceSum(names, consumable, i, sum) ==
    IF i > Len(names) THEN sum
    ELSE PriceSum(names, consumable, i + 1,
             IF /\ names[i] \in DOMAIN SERVICES
                /\ (SERVICES[names[i]].cat = "raskhodniki") = consumable
             THEN FAdd(sum, SERVICES[names[i]].price) ELSE sum)

\* How many items of a list of service rows bear the name n.
Named(items, n) == Cardinality({i \in 1..Len(items) : items[i].name = n})

\* C12: the subtotal of a line item is qty * (sum of the prices of its selected
\* labor services) + qty * (sum of the prices of its selected consumable
\* services) + carton cost, each selected catalog service entering exactly one of
\* the two lists; and in a shipment the subtotal of each line item is the one
\* compute_sku_cost gives for that item and the cartons alone, whatever the
\* warehouse and the other line items.
Thm_C12 ==
    /\ call.op = "compute_sku_cost" =>
          /\ call.ret.work_total =
                FMul(call.sku.qty, PriceSum(call.sku.services_names, FALSE, 1, FZero))
          /\ call.ret.cons_total =
                FMul(call.sku.qty, PriceSum(call.sku.services_names, TRUE, 1, FZero))
          /\ call.ret.sku_total_no_ship =
                FAdd(FAdd(call.ret.work_total, call.ret.cons_total),
                     call.ret.boxes_cost)
          /\ \A i \in 1..Len(call.sku.services_names) :
                call.sku.services_names[i] \in DOMAIN SERVICES
                   => Named(call.ret.work_items, call.sku.services_names[i])
                      + Named(call.ret.cons_items, call.sku.services_names[i]) = 1
    /\ (call.op = "format_report" /\ call.ret.raised = "") =>
          \A i \in 1..Len(call.data.skus) :
             call.ret.sku_calcs[i].sku_total_no_ship =
                compute_sku_cost(call.data.skus[i], call.data.box_dims,
                                 call.data.use_client_boxes).sku_total_no_ship

\* One unit at a labor service of 0.2 and a consumable of 2.5 in a warehouse
\* carton: 0.2 + 2.5 + 110.
Wit_C12 ==
    /\ call.op = "compute_sku_cost"
    /\ call.sku.services_names = <<"upakovka", "plenka">>
    /\ call.ret.work_total = FromRat(1, 5)
    /\ call.ret.cons_total = FromRat(5, 2)
    /\ call.ret.boxes_cost = FromInt(110)
    /\ call.ret.sku_total_no_ship = FromRat(1127, 10)

\* The box counts and the subtotals of the first n per-item calculations, added
\* up in order.
RECURSIVE SumBoxes(_, _)
SumBoxes(calcs, n) == IF n = 0 THEN 0 ELSE SumBoxes(calcs, n - 1) + calcs[n].boxes

RECURSIVE SumSubtotals(_, _)
SumSubtotals(calcs, n) ==
    IF n = 0 THEN FZero
    ELSE FAdd(SumSubtotals(calcs, n - 1), calcs[n].sku_total_no_ship)

\* C13: the grand total of a shipment (in the report and in the manager's
\* request) is the sum of the line-item subtotals + pallet cost + stretch cost +
\* shipping cost, the pallets and the shipping being computed once, from the
\* summed box count of all the line items.
Thm_C13 ==
    call.op \in {"format_report", "format_manager_request"} =>
        LET calcs == [i \in 1..Len(call.data.skus) |->
                         compute_sku_cost(call.data.skus[i], call.data.box_dims,
                                          call.data.use_client_boxes)]
            boxes == SumBoxes(calcs, Len(calcs))
            pal   == party_palletization(boxes, call.data.box_dims)
            ship  == party_shipping_cost(call.data.warehouse, boxes, pal.pallets)
        IN  IF ship.raised # "" THEN call.ret.raised = ship.raised
            ELSE /\ call.ret.raised = ""
                 /\ call.ret.total_boxes = boxes
                 /\ call.ret.pallets = pal.pallets
                 /\ call.ret.pallet_cost = pal.pallet_cost
                 /\ call.ret.stretch_cost = pal.stretch_cost
                 /\ call.ret.ship_cost = ship.cost
                 /\ call.ret.party_total =
                       FAdd(FAdd(FAdd(SumSubtotals(calcs, Len(calcs)), pal.pallet_cost),
                                 pal.stretch_cost), ship.cost)

\* Three line items of one box each with the threshold at 2.5 boxes: no item
\* reaches the threshold alone, the party does, and it is one pallet.
Wit_C13 ==
    /\ call.op = "format_report"
    /\ call.ret.raised = ""
    /\ Len(call.data.skus) = 3
    /\ \A i \in 1..3 : call.ret.sku_calcs[i].boxes = 1
    /\ call.ret.total_boxes = 3
    /\ call.ret.pallets = 1
    /\ call.ret.pallet_cost = FromInt(200)

Thm_C15 ==
    call.op = "party_shipping_cost" =>
        /\ call.ret.raised = "warehouse not found"
              <=> call.warehouse_name \notin DOMAIN TK_WAREHOUSES \cup DOMAIN FF_WAREHOUSES
        /\ call.ret.raised = "warehouse not found" => DOMAIN call.ret = {"raised"}

\* A name of neither table raised, with boxes and pallets to ship.
Wit_C15 ==
    /\ call.op = "party_shipping_cost"
    /\ call.warehouse_name \notin DOMAIN TK_WAREHOUSES \cup DOMAIN FF_WAREHOUSES
    /\ call.total_boxes = 20
    /\ call.pallets = 2
    /\ call.ret = [raised |-> "warehouse not found"]

\* The names of a selection that SERVICES holds, in order.
Known(names) == SelectSeq(names, LAMBDA n : n \in DOMAIN SERVICES)

\* C16: compute_sku_cost skips the names of a selection that SERVICES does not
\* hold: it returns, and every output is the one computed for the same line item
\* with those names removed.
Thm_C16 ==
    call.op = "compute_sku_cost" =>
        call.ret = compute_sku_cost(
                       [call.sku EXCEPT !.services_names = Known(@)],
                       call.box_dims, call.use_client_boxes)

\* A selection of two unknown names among two catalog names: one labor item and
\* one consumable item are priced.
Wit_C16 ==
    /\ call.op = "compute_sku_cost"
    /\ Len(call.sku.services_names) = 4
    /\ Len(Known(call.sku.services_names)) = 2
    /\ Len(call.ret.work_items) = 1
    /\ Len(call.ret.cons_items) = 1
    /\ call.ret.work_per_unit = FromRat(1, 10)
    /\ call.ret.cons_per_unit = FromRat(3, 10)

\* The party-level values and the per-line-item subtotals of a computed quote or
\* request, or what was raised.
PartyValues(r) ==
    IF r.raised # "" THEN [raised |-> r.raised]
    ELSE [raised       |-> "",
          total_boxes  |-> r.total_boxes,
          pallets      |-> r.pallets,
          pallet_cost  |-> r.pallet_cost,
          stretch_cost |-> r.stretch_cost,
          ship_cost    |-> r.ship_cost,
          party_total  |-> r.party_total,
          subtotals    |-> [i \in DOMAIN r.sku_calcs |->
                               r.sku_calcs[i].sku_total_no_ship]]

\* C26: for the same session data format_report and format_manager_request
\* compute the same total box count, pallet count, pallet cost, stretch cost,
\* shipping cost and grand total and the same subtotal of every line item (and
\* one raises exactly when the other does).
Thm_C26 ==
    /\ call.op = "format_report" =>
          PartyValues(call.ret) = PartyValues(format_manager_request(call.data))
    /\ call.op = "format_manager_request" =>
          PartyValues(call.ret) = PartyValues(format_report(call.data))

\* A request for a party of several line items that is palletized and shipped
\* at a cost.
Wit_C26 ==
    /\ call.op = "format_manager_request"
    /\ call.ret.raised = ""
    /\ Len(call.data.skus) >= 2
    /\ call.ret.pallets >= 1
    /\ FLess(FZero, call.ret.ship_cost)
    /\ FLess(FZero, call.ret.stretch_cost)

(***************************************************************************)
(* THE SESSION                                                             *)
(* The handlers of the conversation, one action each; a handler is bound   *)
(* to its FSM state, cmd_start and new_calc to the state of a user outside *)
(* a session.  The texts are written in Latin letters: "Nazad" is the      *)
(* button "Назад", "Da" and "Net" are "Да" and "Нет", "Gotovo" is          *)
(* "Готово", " -- " is the dash of a service button.                       *)
(***************************************************************************)

\* Bounds of the session: the list is not extended beyond MaxSessionSkus items
\* (beyond MaxVaried + 1 when an item is not plain); the first item of a list takes
\* every input, the first MaxVaried items every input but the service buttons, and
\* the later ones only the plain inputs.
MaxSessionSkus == 11

MaxVaried == 1

\* With several users in the storage, the line items one session holds.
MaxSharedSkus == 1

\* str.strip() on the texts of the model.
strip(text) ==
    CASE text = " " -> ""
      [] text = " a " -> "a"
      [] text = " wh2 " -> "wh2"
      [] OTHER -> text

\* str.lower() on the texts of the model.
lower(text) ==
    CASE text = "Nazad" -> "nazad"
      [] text = "Da" -> "da"
      [] text = "Net" -> "net"
      [] text = "Gotovo" -> "gotovo"
      [] text = "Rabota" -> "rabota"
      [] text = "Raskhodniki" -> "raskhodniki"
      [] text = "Tochnye gabarity" -> "tochnye gabarity"
      [] text = "Tipovoj razmer" -> "tipovoj razmer"
      [] text = "Malenkij" -> "malenkij"
      [] text = "Koroba sklada" -> "koroba sklada"
      [] text = "Koroba klienta" -> "koroba klienta"
      [] text = "Otmenit poslednyuyu uslugu" -> "otmenit poslednyuyu uslugu"
      [] text = "FF_SHIP_BOX_A" -> "ff_ship_box_a"
      [] text = "FF_PALLET" -> "ff_pallet"
      [] text = "TK_A" -> "tk_a"
      [] text = "TK_A_PALLET" -> "tk_a_pallet"
      [] text = "TK_A_ENTRY" -> "tk_a_entry"
      [] text = "TK_TO_TK_PER_BOX" -> "tk_to_tk_per_box"
      [] text = "PALLET" -> "pallet"
      [] OTHER -> text

\* str.upper() on the codes of the model.
upper(text) ==
    CASE text = "ff_ship_box_b" -> "FF_SHIP_BOX_B"
      [] text = "tk_b" -> "TK_B"
      [] text = "nan" -> "NAN"
      [] OTHER -> text

\* part in text, for the lower-case texts of the model.
Contains(text, part) ==
    <<text, part>> \in {<<"tochnye gabarity", "tochn">>, <<"tipovoj razmer", "tipov">>,
                        <<"malenkij", "mal">>,
                        <<"TK_A_PALLET", "PALLET">>, <<"FF_PALLET", "PALLET">>,
                        <<"PALLET", "PALLET">>, <<"TK_A_ENTRY", "ENTRY">>}

\* text.startswith(prefix), for the lower-case texts of the model.
StartsWith(text, prefix) ==
    <<text, prefix>> \in {<<"da", "d">>, <<"net", "n">>, <<"nazad", "n">>,
                          <<"koroba sklada", "koroba sklada">>,
                          <<"koroba klienta", "koroba klienta">>,
                          <<"FF_SHIP_BOX_A", "FF_SHIP_BOX_">>,
                          <<"FF_SHIP_BOX_B", "FF_SHIP_BOX_">>,
                          <<"FF_SHIP_BOX_A", "FF_">>, <<"FF_SHIP_BOX_B", "FF_">>,
                          <<"FF_PALLET", "FF_">>,
                          <<"TK_A", "TK_">>, <<"TK_B", "TK_">>,
                          <<"TK_A_PALLET", "TK_">>, <<"TK_A_ENTRY", "TK_">>,
                          <<"TK_TO_TK_PER_BOX", "TK_">>}

\* text.replace(",", ".")
comma_to_dot(text) ==
    CASE text = "1,0" -> "1.0"
      [] OTHER -> text

\* float(text): the texts Python reads as a float; on the others it raises.
Floats ==
    ("1" :> FromInt(1)) @@ ("1.0" :> FromInt(1)) @@ ("0" :> FZero) @@ ("nan" :> NaN)

\* What parse_dimensions has after the replacements, the split and map(float):
\* the three floats of a text; a text absent here does not give three floats.
DimensionParts ==
    ("10x10x5" :> Dims(10, 10, 5)) @@ ("0x1x1" :> Dims(0, 1, 1)) @@
    ("50x40x40" :> Dims(50, 40, 40)) @@ ("60x40x40" :> Dims(60, 40, 40)) @@
    ("60X40X40" :> Dims(60, 40, 40)) @@
    ("nanx100x1" :> <<NaN, FromInt(100), FromInt(1)>>) @@
    ("nanx40x40" :> <<NaN, FromInt(40), FromInt(40)>>)

parse_dimensions(text) ==
    LET checked(l, w, h) ==
            IF FLeq(l, FZero) \/ FLeq(w, FZero) \/ FLeq(h, FZero) THEN None
            ELSE <<l, w, h>>
    IN  IF text \notin DOMAIN DimensionParts THEN None
        ELSE checked(DimensionParts[text][1], DimensionParts[text][2],
                     DimensionParts[text][3])

get_template_dimensions(name) ==
    IF Contains(lower(name), "mal") THEN Dims(10, 10, 5)
    ELSE IF Contains(lower(name), "sred") THEN Dims(25, 20, 5)
    ELSE IF Contains(lower(name), "krup") THEN Dims(30, 40, 5)
    ELSE None

\* "Name -- 5 R/sht" -> "Name"; "" for a text without the dash.
parse_service_button(text) ==
    CASE text = "markirovka -- 0.1 R/sht" -> "markirovka"
      [] text = "paket -- 0.3 R/sht" -> "paket"
      [] text = "stale -- 1 R/sht" -> "stale"
      [] OTHER -> ""

\* The messages a user sends in each step: the buttons of the step's keyboard and
\* texts typed by hand.
NameTexts == {"a", " a ", " "}

QtyTexts == {"Nazad", "1", "1,0", "0", "abc", "nan"}

SizeTypeTexts == {"Nazad", "Tochnye gabarity", "Tipovoj razmer", "abc"}

ExactSizeTexts == {"Nazad", "10x10x5", "0x1x1", "abc", "nanx100x1"}

TemplateTexts == {"Nazad", "Malenkij", "abc"}

ServiceTexts ==
    {"Rabota", "Raskhodniki", "Otmenit poslednyuyu uslugu", "Nazad", "nazad", "Gotovo",
     "markirovka -- 0.1 R/sht", "paket -- 0.3 R/sht", "stale -- 1 R/sht"}

YesNoTexts == {"Da", "Net", "Nazad", "abc"}

WarehouseTexts == {"Nazad", "ff_a", "tk_pallet", "nowhere"}

BoxOwnerTexts == {"Nazad", "Koroba sklada", "Koroba klienta", "abc"}

WarehouseBoxTexts == {"Nazad", "60X40X40", "40X30X30", "60x40x40"}

ClientBoxTexts == {"Nazad", "50x40x40", "nanx40x40", "abc"}

\* The inputs that make one line item differ from another.
VariedTexts == {"nan", "nanx100x1"}

\* The buttons of the services of the catalog.
ServiceButtons == {"markirovka -- 0.1 R/sht", "paket -- 0.3 R/sht"}

\* The texts that go a step back.
BackTexts == {"Nazad", "nazad"}

\* The storage holds several users.
Shared == Cardinality(Users) > 1

\* The messages a handler is run with.  With several users in the storage every
\* session is kept to plain line items entered without going back.
Messages(user, texts) ==
    IF Shared THEN texts \ (VariedTexts \cup ServiceButtons \cup BackTexts)
    ELSE IF storage[user].skus = <<>> THEN texts
    ELSE IF Len(storage[user].skus) < MaxVaried THEN texts \ ServiceButtons
    ELSE texts \ (VariedTexts \cup ServiceButtons)

\* A line item entered with the plain inputs only.
Plain(sku) ==
    /\ sku.services_names = <<>>
    /\ sku.qty # NaN
    /\ \A k \in 1..3 : sku.dimensions[k] # NaN

\* The line items a session is let to hold: MaxSessionSkus plain ones, fewer
\* when one of them is not plain.
SkuBound(user, current_sku) ==
    IF Shared THEN MaxSharedSkus
    ELSE IF Plain(current_sku)
            /\ \A i \in 1..Len(storage[user].skus) : Plain(storage[user].skus[i])
    THEN MaxSessionSkus
    ELSE MaxVaried + 1

\* The session data as format_report reads it: the warehouse name itself.
Shipment(d) == [d EXCEPT !.warehouse = d.warehouse[1]]

\* The catalog the session runs with: one warehouse of each rate shape, the
\* intermediate-carrier one with a per-pallet rate only, and the default constants.
SessionInit ==
    /\ SERVICES = ServicesSheet
    /\ FF_WAREHOUSES = [n \in {"ff_a"} |-> FFSheet[n]]
    /\ TK_WAREHOUSES = [n \in {"tk_pallet"} |-> TKSheet[n]]
    /\ CONST \in {c \in ConstSheets : c.TO_TK_PER_BOX = FromInt(100)}
    /\ call = Idle
    /\ state = [user \in {"user1"} |-> NoState]
    /\ storage = [user \in {"user1"} |-> <<>>]
    /\ manager_chat = <<>>
    /\ answer = <<>>
    /\ pc = "polling"

\* /start with one storage entry for all users instead of one per user.
cmd_start_shared_data(user) ==
    /\ pc = "polling"
    /\ state[user] = NoState
    /\ storage' = [u \in Users |->
                       [skus |-> <<>>, current_sku |-> None,
                        current_services_cat |-> "rabota", warehouse |-> None,
                        use_client_boxes |-> FALSE, box_dims |-> None]]
    /\ state' = [state EXCEPT ![user] = "WaitingSkuName"]
    /\ manager_chat' = <<>>
    /\ answer' = <<>>
    /\ UNCHANGED <<catalog, pc, call>>

\* /start, for a user outside a session.
cmd_start(user) ==
    /\ pc = "polling"
    /\ state[user] = NoState
    /\ storage' = [storage EXCEPT ![user] =
                       [skus |-> <<>>, current_sku |-> None,
                        current_services_cat |-> "rabota", warehouse |-> None,
                        use_client_boxes |-> FALSE, box_dims |-> None]]
    /\ state' = [state EXCEPT ![user] = "WaitingSkuName"]
    /\ manager_chat' = <<>>
    /\ answer' = <<>>
    /\ UNCHANGED <<catalog, pc, call>>

\* The text "Novyj raschet", for a user outside a session.
new_calc(user) == cmd_start(user)

sku_name(user) ==
    /\ pc = "polling"
    /\ state[user] = "WaitingSkuName"
    /\ \E message \in Messages(user, NameTexts) :
         LET name == strip(message)
         IN  IF name = "" THEN UNCHANGED <<state, storage>>
             ELSE /\ storage' = [storage EXCEPT ![user].current_sku =
                                    [name |-> name, qty |-> None, dimensions |-> None,
                                     services_names |-> <<>>]]
                  /\ state' = [state EXCEPT ![user] = "WaitingSkuQty"]
    /\ manager_chat' = <<>>
    /\ answer' = <<>>
    /\ UNCHANGED <<catalog, pc, call>>

sku_qty(user) ==
    /\ pc = "polling"
    /\ state[user] = "WaitingSkuQty"
    /\ \E message \in Messages(user, QtyTexts) :
         LET text == comma_to_dot(strip(message))
         IN  IF lower(strip(message)) = "nazad"
             THEN state' = [state EXCEPT ![user] = "WaitingSkuName"] /\ UNCHANGED storage
             ELSE IF text \notin DOMAIN Floats \/ FLeq(Floats[text], FZero)
             THEN UNCHANGED <<state, storage>>
             ELSE /\ storage' = [storage EXCEPT ![user].current_sku.qty = Floats[text]]
                  /\ state' = [state EXCEPT ![user] = "WaitingSizeType"]
    /\ manager_chat' = <<>>
    /\ answer' = <<>>
    /\ UNCHANGED <<catalog, pc, call>>

size_type(user) ==
    /\ pc = "polling"
    /\ state[user] = "WaitingSizeType"
    /\ \E message \in Messages(user, SizeTypeTexts) :
         LET text == lower(strip(message))
         IN  state' = [state EXCEPT ![user] =
                         IF text = "nazad" THEN "WaitingSkuQty"
                         ELSE IF Contains(text, "tochn") THEN "WaitingExactSize"
                         ELSE IF Contains(text, "tipov") THEN "WaitingTemplateSize"
                         ELSE @]
    /\ manager_chat' = <<>>
    /\ answer' = <<>>
    /\ UNCHANGED <<catalog, pc, call, storage>>

exact_size(user) ==
    /\ pc = "polling"
    /\ state[user] = "WaitingExactSize"
    /\ \E message \in Messages(user, ExactSizeTexts) :
         LET text == strip(message)
             dims == parse_dimensions(text)
         IN  IF lower(text) = "nazad"
             THEN state' = [state EXCEPT ![user] = "WaitingSizeType"] /\ UNCHANGED storage
             ELSE IF dims = None THEN UNCHANGED <<state, storage>>
             ELSE /\ storage' = [storage EXCEPT ![user].current_sku.dimensions = dims,
                                                ![user].current_services_cat = "rabota"]
                  /\ state' = [state EXCEPT ![user] = "WaitingServices"]
    /\ manager_chat' = <<>>
    /\ answer' = <<>>
    /\ UNCHANGED <<catalog, pc, call>>

template_size(user) ==
    /\ pc = "polling"
    /\ state[user] = "WaitingTemplateSize"
    /\ \E message \in Messages(user, TemplateTexts) :
         LET text == strip(message)
             dims == get_template_dimensions(text)
         IN  IF lower(text) = "nazad"
             THEN state' = [state EXCEPT ![user] = "WaitingSizeType"] /\ UNCHANGED storage
             ELSE IF dims = None THEN UNCHANGED <<state, storage>>
             ELSE /\ storage' = [storage EXCEPT ![user].current_sku.dimensions = dims,
                                                ![user].current_services_cat = "rabota"]
                  /\ state' = [state EXCEPT ![user] = "WaitingServices"]
    /\ manager_chat' = <<>>
    /\ answer' = <<>>
    /\ UNCHANGED <<catalog, pc, call>>

\* services without the test that the service is not selected yet.
services_text_always_append(user, message) ==
    LET text        == strip(message)
        current_sku == storage[user].current_sku
        selected    == storage[user].current_sku.services_names
        svc_name    == parse_service_button(text)
        count       == Len(storage[user].skus) + 1
    IN  IF lower(text) \in {"rabota", "raskhodniki"}
        THEN /\ storage' = [storage EXCEPT ![user].current_services_cat = lower(text)]
             /\ UNCHANGED state
        ELSE IF text = "Otmenit poslednyuyu uslugu"
        THEN /\ storage' = [storage EXCEPT ![user].current_sku.services_names =
                               IF selected # <<>>
                               THEN SubSeq(selected, 1, Len(selected) - 1)
                               ELSE selected]
             /\ UNCHANGED state
        ELSE IF text = "Nazad"
        THEN state' = [state EXCEPT ![user] = "WaitingSizeType"] /\ UNCHANGED storage
        ELSE IF text = "Gotovo"
        THEN /\ count <= SkuBound(user, current_sku)
             /\ storage' = [storage EXCEPT ![user].skus = Append(@, current_sku),
                                           ![user].current_sku = None,
                                           ![user].current_services_cat = "rabota"]
             /\ state' = [state EXCEPT ![user] =
                               IF count >= MAX_SKU THEN "WaitingWarehouse"
                               ELSE "WaitingMoreSku"]
        ELSE IF svc_name = "" \/ svc_name \notin DOMAIN SERVICES
        THEN UNCHANGED <<state, storage>>
        ELSE /\ storage' = [storage EXCEPT ![user].current_sku.services_names =
                               Append(selected, svc_name)]
             /\ UNCHANGED state

\* services, run with one message.
services_text(user, message) ==
    LET text        == strip(message)
        current_sku == storage[user].current_sku
        selected    == storage[user].current_sku.services_names
        svc_name    == parse_service_button(text)
        count       == Len(storage[user].skus) + 1
    IN  IF lower(text) \in {"rabota", "raskhodniki"}
        THEN /\ storage' = [storage EXCEPT ![user].current_services_cat = lower(text)]
             /\ UNCHANGED state
        ELSE IF text = "Otmenit poslednyuyu uslugu"
        THEN /\ storage' = [storage EXCEPT ![user].current_sku.services_names =
                               IF selected # <<>>
                               THEN SubSeq(selected, 1, Len(selected) - 1)
                               ELSE selected]
             /\ UNCHANGED state
        ELSE IF text = "Nazad"
        THEN state' = [state EXCEPT ![user] = "WaitingSizeType"] /\ UNCHANGED storage
        ELSE IF text = "Gotovo"
        THEN /\ count <= SkuBound(user, current_sku)
             /\ storage' = [storage EXCEPT ![user].skus = Append(@, current_sku),
                                           ![user].current_sku = None,
                                           ![user].current_services_cat = "rabota"]
             /\ state' = [state EXCEPT ![user] =
                               IF count >= MAX_SKU THEN "WaitingWarehouse"
                               ELSE "WaitingMoreSku"]
        ELSE IF svc_name = "" \/ svc_name \notin DOMAIN SERVICES
        THEN UNCHANGED <<state, storage>>
        ELSE /\ storage' = [storage EXCEPT ![user].current_sku.services_names =
                               IF \E i \in 1..Len(selected) : selected[i] = svc_name
                               THEN selected ELSE Append(selected, svc_name)]
             /\ UNCHANGED state

services(user) ==
    /\ pc = "polling"
    /\ state[user] = "WaitingServices"
    /\ \E message \in Messages(user, ServiceTexts) : services_text(user, message)
    /\ manager_chat' = <<>>
    /\ answer' = <<>>
    /\ UNCHANGED <<catalog, pc, call>>

more_sku(user) ==
    /\ pc = "polling"
    /\ state[user] = "WaitingMoreSku"
    /\ \E message \in Messages(user, YesNoTexts) :
         LET text == lower(strip(message))
         IN  state' = [state EXCEPT ![user] =
                         IF StartsWith(text, "d") THEN "WaitingSkuName"
                         ELSE IF StartsWith(text, "n") THEN "WaitingWarehouse"
                         ELSE @]
    /\ manager_chat' = <<>>
    /\ answer' = <<>>
    /\ UNCHANGED <<catalog, pc, call, storage>>

warehouse(user) ==
    /\ pc = "polling"
    /\ state[user] = "WaitingWarehouse"
    /\ \E message \in Messages(user, WarehouseTexts) :
         LET warehouse_name == strip(message)
         IN  IF lower(warehouse_name) = "nazad"
             THEN state' = [state EXCEPT ![user] = "WaitingMoreSku"] /\ UNCHANGED storage
             ELSE IF warehouse_name \notin WAREHOUSE_NAMES
             THEN UNCHANGED <<state, storage>>
             ELSE /\ storage' = [storage EXCEPT ![user].warehouse = Some(warehouse_name)]
                  /\ state' = [state EXCEPT ![user] = "WaitingBoxesOwner"]
    /\ manager_chat' = <<>>
    /\ answer' = <<>>
    /\ UNCHANGED <<catalog, pc, call>>

\* boxes_owner without update_data(use_client_boxes=False).
boxes_owner_flag_kept(user) ==
    /\ pc = "polling"
    /\ state[user] = "WaitingBoxesOwner"
    /\ \E message \in Messages(user, BoxOwnerTexts) :
         LET text == lower(strip(message))
         IN  IF text = "nazad"
             THEN state' = [state EXCEPT ![user] = "WaitingWarehouse"] /\ UNCHANGED storage
             ELSE IF StartsWith(text, "koroba sklada")
             THEN /\ UNCHANGED storage
                  /\ state' = [state EXCEPT ![user] = "WaitingWarehouseBoxChoice"]
             ELSE IF StartsWith(text, "koroba klienta")
             THEN /\ storage' = [storage EXCEPT ![user].use_client_boxes = TRUE]
                  /\ state' = [state EXCEPT ![user] = "WaitingClientBoxDims"]
             ELSE UNCHANGED <<state, storage>>
    /\ manager_chat' = <<>>
    /\ answer' = <<>>
    /\ UNCHANGED <<catalog, pc, call>>

boxes_owner(user) ==
    /\ pc = "polling"
    /\ state[user] = "WaitingBoxesOwner"
    /\ \E message \in Messages(user, BoxOwnerTexts) :
         LET text == lower(strip(message))
         IN  IF text = "nazad"
             THEN state' = [state EXCEPT ![user] = "WaitingWarehouse"] /\ UNCHANGED storage
             ELSE IF StartsWith(text, "koroba sklada")
             THEN /\ storage' = [storage EXCEPT ![user].use_client_boxes = FALSE]
                  /\ state' = [state EXCEPT ![user] = "WaitingWarehouseBoxChoice"]
             ELSE IF StartsWith(text, "koroba klienta")
             THEN /\ storage' = [storage EXCEPT ![user].use_client_boxes = TRUE]
                  /\ state' = [state EXCEPT ![user] = "WaitingClientBoxDims"]
             ELSE UNCHANGED <<state, storage>>
    /\ manager_chat' = <<>>
    /\ answer' = <<>>
    /\ UNCHANGED <<catalog, pc, call>>

\* quote that sets ConfirmSend before format_report is called.
quote_state_set_first(user, dims) ==
    LET shown(data, report) ==
            /\ storage' = [storage EXCEPT ![user] = data]
            /\ state' = [state EXCEPT ![user] = "ConfirmSend"]
            /\ answer' = IF report.raised = "" THEN <<report>> ELSE <<>>
        computed(data) == shown(data, format_report(Shipment(data)))
    IN  computed([storage[user] EXCEPT !.box_dims = dims])

\* The end of warehouse_box_choice and of client_box_dims: update_data(box_dims),
\* then format_report, and ConfirmSend unless format_report raised.
quote(user, dims) ==
    LET shown(data, report) ==
            /\ storage' = [storage EXCEPT ![user] = data]
            /\ state' = [state EXCEPT ![user] =
                             IF report.raised = "" THEN "ConfirmSend" ELSE @]
            /\ answer' = IF report.raised = "" THEN <<report>> ELSE <<>>
        computed(data) == shown(data, format_report(Shipment(data)))
    IN  computed([storage[user] EXCEPT !.box_dims = dims])

warehouse_box_choice(user) ==
    /\ pc = "polling"
    /\ state[user] = "WaitingWarehouseBoxChoice"
    /\ \E message \in Messages(user, WarehouseBoxTexts) :
         LET text == strip(message)
         IN  IF lower(text) = "nazad"
             THEN /\ state' = [state EXCEPT ![user] = "WaitingBoxesOwner"]
                  /\ UNCHANGED storage
                  /\ answer' = <<>>
             ELSE IF text \notin DOMAIN WAREHOUSE_BOXES
             THEN UNCHANGED <<state, storage>> /\ answer' = <<>>
             ELSE quote(user, WAREHOUSE_BOXES[text])
    /\ manager_chat' = <<>>
    /\ UNCHANGED <<catalog, pc, call>>

client_box_dims(user) ==
    /\ pc = "polling"
    /\ state[user] = "WaitingClientBoxDims"
    /\ \E message \in Messages(user, ClientBoxTexts) :
         LET text == strip(message)
             dims == parse_dimensions(text)
         IN  IF lower(text) = "nazad"
             THEN /\ state' = [state EXCEPT ![user] = "WaitingBoxesOwner"]
                  /\ UNCHANGED storage
                  /\ answer' = <<>>
             ELSE IF dims = None THEN UNCHANGED <<state, storage>> /\ answer' = <<>>
             ELSE quote(user, dims)
    /\ manager_chat' = <<>>
    /\ UNCHANGED <<catalog, pc, call>>

\* confirm_send without state.finish() after the request was sent.
confirm_send_text_stay(user, message) ==
    LET text == lower(strip(message))
        sent(req) ==
            IF req.raised # ""
            THEN manager_chat' = <<>> /\ UNCHANGED <<state, storage>>
            ELSE /\ manager_chat' = <<req>>
                 /\ UNCHANGED <<state, storage>>
    IN  IF StartsWith(text, "d") THEN sent(format_manager_request(Shipment(storage[user])))
        ELSE IF StartsWith(text, "n")
        THEN /\ manager_chat' = <<>>
             /\ state' = [state EXCEPT ![user] = NoState]
             /\ storage' = [storage EXCEPT ![user] = <<>>]
        ELSE manager_chat' = <<>> /\ UNCHANGED <<state, storage>>

\* confirm_send, run with one message.
confirm_send_text(user, message) ==
    LET text == lower(strip(message))
        sent(req) ==
            IF req.raised # ""
            THEN manager_chat' = <<>> /\ UNCHANGED <<state, storage>>
            ELSE /\ manager_chat' = <<req>>
                 /\ state' = [state EXCEPT ![user] = NoState]
                 /\ storage' = [storage EXCEPT ![user] = <<>>]
    IN  IF StartsWith(text, "d") THEN sent(format_manager_request(Shipment(storage[user])))
        ELSE IF StartsWith(text, "n")
        THEN /\ manager_chat' = <<>>
             /\ state' = [state EXCEPT ![user] = NoState]
             /\ storage' = [storage EXCEPT ![user] = <<>>]
        ELSE manager_chat' = <<>> /\ UNCHANGED <<state, storage>>

confirm_send(user) ==
    /\ pc = "polling"
    /\ state[user] = "ConfirmSend"
    /\ \E message \in Messages(user, YesNoTexts) : confirm_send_text(user, message)
    /\ answer' = <<>>
    /\ UNCHANGED <<catalog, pc, call>>

SessionNext ==
    \/ \E user \in Users : cmd_start(user)
    \/ \E user \in Users : new_calc(user)
    \/ \E user \in Users : sku_name(user)
    \/ \E user \in Users : sku_qty(user)
    \/ \E user \in Users : size_type(user)
    \/ \E user \in Users : exact_size(user)
    \/ \E user \in Users : template_size(user)
    \/ \E user \in Users : services(user)
    \/ \E user \in Users : more_sku(user)
    \/ \E user \in Users : warehouse(user)
    \/ \E user \in Users : boxes_owner(user)
    \/ \E user \in Users : warehouse_box_choice(user)
    \/ \E user \in Users : client_box_dims(user)
    \/ \E user \in Users : confirm_send(user)

SessionSpec == SessionInit /\ [][SessionNext]_vars

\* Two users write to the bot: the dispatcher runs the handler of each message
\* with the FSM context of its sender, in any order of the messages.
TwoUsersInit ==
    /\ SERVICES = ServicesSheet
    /\ FF_WAREHOUSES = [n \in {"ff_a"} |-> FFSheet[n]]
    /\ TK_WAREHOUSES = [n \in {"tk_pallet"} |-> TKSheet[n]]
    /\ CONST \in {c \in ConstSheets : c.TO_TK_PER_BOX = FromInt(100)}
    /\ call = Idle
    /\ state = [user \in {"user1", "user2"} |-> NoState]
    /\ storage = [user \in {"user1", "user2"} |-> <<>>]
    /\ manager_chat = <<>>
    /\ answer = <<>>
    /\ pc = "polling"

TwoUsersSpec == TwoUsersInit /\ [][SessionNext]_vars

(***************************************************************************)
(* Properties of the session                                               *)
(***************************************************************************)

InSession(user) == state[user] # NoState

\* C17: the line-item list of a session never holds more than MAX_SKU items, and
\* it holds at least one item whenever the quote has been computed (ConfirmSend).
CE_C17 ==
    \A user \in Users :
    InSession(user) =>
        /\ Len(storage[user].skus) <= MAX_SKU
        /\ state[user] = "ConfirmSend" => Len(storage[user].skus) >= 1

\* C18: when the session has computed the quote and entered ConfirmSend, the
\* warehouse is one of WAREHOUSE_NAMES, every line item has a quantity > 0 and
\* three dimensions > 0, and the carton dimensions are set and all > 0.
CE_C18 ==
    \A user \in Users :
    state[user] = "ConfirmSend" =>
        /\ storage[user].warehouse # None
        /\ storage[user].warehouse[1] \in WAREHOUSE_NAMES
        /\ \A i \in 1..Len(storage[user].skus) :
              /\ storage[user].skus[i].qty # None
              /\ FLess(FZero, storage[user].skus[i].qty)
              /\ storage[user].skus[i].dimensions # None
              /\ \A k \in 1..3 : FLess(FZero, storage[user].skus[i].dimensions[k])
        /\ storage[user].box_dims # None
        /\ \A k \in 1..3 : FLess(FZero, storage[user].box_dims[k])

(***************************************************************************)
(* Properties of the sessions of two users                                 *)
(***************************************************************************)

\* One handler run for a message of the user.
HandlerStep(user) ==
    \/ cmd_start(user) \/ new_calc(user) \/ sku_name(user) \/ sku_qty(user)
    \/ size_type(user) \/ exact_size(user) \/ template_size(user)
    \/ services(user) \/ more_sku(user) \/ warehouse(user) \/ boxes_owner(user)
    \/ warehouse_box_choice(user) \/ client_box_dims(user) \/ confirm_send(user)

\* C23: in every step of any interleaving of the messages of two users, a user's
\* session (FSM state and stored data: line items, current item, warehouse, box
\* flag, carton) changes only in a handler run for that user's own message, and
\* the catalog (SERVICES, both warehouse tables, CONST) is not changed.
Thm_C23 ==
    [][/\ \A user \in Users :
             (state'[user] # state[user] \/ storage'[user] # storage[user])
                 => HandlerStep(user)
       /\ catalog' = catalog]_vars

\* Both users are in the middle of different sessions: the first has a quote for
\* a stored shipment, the second is entering its first line item.
Wit_C23 ==
    /\ Users = {"user1", "user2"}
    /\ state["user1"] = "ConfirmSend"
    /\ Len(storage["user1"].skus) = 1
    /\ state["user2"] = "WaitingServices"
    /\ storage["user2"].skus = <<>>
    /\ storage["user2"].current_sku # None


(***************************************************************************)
(* Properties of the service selection                                     *)
(***************************************************************************)

\* The services selected for the current line item, in the order of the list.
selected_names(user) == storage[user].current_sku.services_names

NoDuplicates(names) ==
    \A i, j \in 1..Len(names) : names[i] = names[j] => i = j

\* C24: in the service-selection step the service list of the current line item
\* holds no name twice and only keys of SERVICES; pressing the button of a
\* selected service leaves the list as it is, pressing one not yet selected puts
\* it at the end, and undo removes the last, most recently added, name.
Thm_C24 ==
    /\ [](\A user \in Users :
             state[user] = "WaitingServices" =>
                 /\ NoDuplicates(selected_names(user))
                 /\ \A i \in 1..Len(selected_names(user)) :
                       selected_names(user)[i] \in DOMAIN SERVICES)
    /\ [][\A user \in Users :
             state[user] = "WaitingServices" =>
                 /\ \A button \in ServiceButtons :
                       services_text(user, button) =>
                           /\ state'[user] = "WaitingServices"
                           /\ selected_names(user)' =
                                 IF \E i \in 1..Len(selected_names(user)) :
                                       selected_names(user)[i] = parse_service_button(button)
                                 THEN selected_names(user)
                                 ELSE Append(selected_names(user),
                                             parse_service_button(button))
                 /\ services_text(user, "Otmenit poslednyuyu uslugu") =>
                       /\ state'[user] = "WaitingServices"
                       /\ selected_names(user)' =
                             IF selected_names(user) = <<>> THEN <<>>
                             ELSE SubSeq(selected_names(user), 1,
                                         Len(selected_names(user)) - 1)]_vars

\* Two services are selected, the one of the second category first, and the
\* keyboard is back on the first category.
Wit_C24 ==
    \E user \in Users :
        /\ state[user] = "WaitingServices"
        /\ selected_names(user) = <<"paket", "markirovka">>
        /\ storage[user].current_services_cat = "rabota"

(***************************************************************************)
(* Properties of the cartons                                               *)
(***************************************************************************)

\* The two cartons of the warehouse.
Presets == {WAREHOUSE_BOXES[text] : text \in DOMAIN WAREHOUSE_BOXES}

\* The cartons a customer enters.
ClientEntered ==
    {parse_dimensions(strip(text)) : text \in ClientBoxTexts \ BackTexts} \ {None}

\* The flag and the carton of the data agree.
Agree(d) ==
    IF d.use_client_boxes THEN d.box_dims \in ClientEntered
    ELSE d.box_dims \in Presets

YesTexts == {message \in YesNoTexts : StartsWith(lower(strip(message)), "d")}

NoTexts == {message \in YesNoTexts :
               /\ ~StartsWith(lower(strip(message)), "d")
               /\ StartsWith(lower(strip(message)), "n")}

Finished(user) == state'[user] = NoState /\ storage'[user] = <<>>

\* C27: a handler run sends a request to the manager chat only when it is
\* confirm_send run in ConfirmSend with a yes, and then it sends one request and
\* finishes the session; a yes or a no in ConfirmSend finishes the session, a no
\* without a request; a user outside a session has no shipment stored, so the
\* next request needs a new start and a new shipment.
Thm_C27 ==
    /\ [](\A user \in Users : state[user] = NoState => storage[user] = <<>>)
    /\ [][/\ manager_chat' # <<>> =>
                /\ Len(manager_chat') = 1
                /\ \E user \in Users :
                      /\ state[user] = "ConfirmSend"
                      /\ \E message \in YesTexts : confirm_send_text(user, message)
                      /\ Finished(user)
          /\ \A user \in Users :
                state[user] = "ConfirmSend" =>
                    /\ \A message \in YesTexts :
                          confirm_send_text(user, message) =>
                              Finished(user) /\ Len(manager_chat') = 1
                    /\ \A message \in NoTexts :
                          confirm_send_text(user, message) =>
                              Finished(user) /\ manager_chat' = <<>>]_vars

\* The request of a session was sent and the session is finished.
Wit_C27 ==
    /\ Len(manager_chat) = 1
    /\ manager_chat[1].raised = ""
    /\ \A user \in Users : state[user] = NoState /\ storage[user] = <<>>

(***************************************************************************)
(* Properties of a quote that raises                                       *)
(***************************************************************************)

\* format_report raises the error of party_shipping_cost on the data.
Unpriceable(d) ==
    format_report(Shipment(d)).raised
        \in {"no rate to the warehouse", "warehouse not found"}

\* quote was run with the carton and party_shipping_cost raised in it.
QuoteRaised(user, dims) ==
    /\ quote(user, dims)
    /\ Unpriceable([storage[user] EXCEPT !.box_dims = dims])

\* The session stays in its step, shows no quote and sends no request.
Stays(user) ==
    /\ state'[user] = state[user]
    /\ answer' = <<>>
    /\ manager_chat' = <<>>

\* C28: when party_shipping_cost raises (no rate, or warehouse not found) while a
\* carton step computes the quote, the session stays in that carton step, the
\* answer shows no quote and nothing is sent to the manager; a session in
\* ConfirmSend holds a shipment that is priced, and a request is sent only from
\* there.
Thm_C28 ==
    /\ [](\A user \in Users :
             state[user] = "ConfirmSend" => ~Unpriceable(storage[user]))
    /\ [][/\ \A user \in Users :
                /\ state[user] = "WaitingWarehouseBoxChoice" =>
                      \A dims \in Presets : QuoteRaised(user, dims) => Stays(user)
                /\ state[user] = "WaitingClientBoxDims" =>
                      \A dims \in ClientEntered : QuoteRaised(user, dims) => Stays(user)
          /\ manager_chat' # <<>> =>
                \E user \in Users :
                    state[user] = "ConfirmSend" /\ ~Unpriceable(storage[user])]_vars

\* The quote for a carton of the warehouse raised: the carton is stored, the
\* warehouse has no rate for the party, and the session is in the carton step.
Wit_C28 ==
    \E user \in Users :
        /\ state[user] = "WaitingWarehouseBoxChoice"
        /\ storage[user].box_dims \in Presets
        /\ ~storage[user].use_client_boxes
        /\ Unpriceable(storage[user])
        /\ answer = <<>>

(***************************************************************************)
(* DATA LOAD                                                               *)
(* A sheet is its columns and its rows, a row the cells the loader reads;  *)
(* a file that does not exist is None.  Codes and names are written in     *)
(* Latin letters; an empty cell reads as "nan".                            *)
(***************************************************************************)

\* Bounds of the sheets: the number of rows.
MaxFFRows == 2

MaxTKRows == 2

MaxServiceRows == 2

RuntimeError == [raised |-> "RuntimeError"]

\* The sequences of at most n elements of S.
SeqsWithin(S, n) == UNION {[1..k -> S] : k \in 0..n}

\* dict[key] = value
Put(dict, key, value) == (key :> value) @@ dict

\* _need_cols: raises when a column is missing, and drops the rows whose price
\* is not a number.
need_cols(df) ==
    IF ~({"kod", "naimenovanie", "ed.izm", "tsena"} \subseteq df.columns)
    THEN RuntimeError
    ELSE [df EXCEPT !.rows = SelectSeq(@, LAMBDA r : r.price # None)]

\* The loop of load_services_from_xlsx over the rows.
RECURSIVE service_rows(_, _, _, _)
service_rows(rows, has_cat, i, services_acc) ==
    LET kept(name, price, cat, unit) ==
            Put(services_acc, name,
                [price |-> price,
                 cat   |-> IF cat \notin {"rabota", "raskhodniki"} THEN "rabota" ELSE cat,
                 unit  |-> IF unit = "" \/ lower(unit) = "nan" THEN "sht" ELSE unit])
        row(name, unit, price, cat) ==
            IF name = "" \/ lower(name) = "nan" THEN services_acc
            ELSE kept(name, price, cat, unit)
    IN  IF i > Len(rows) THEN services_acc
        ELSE service_rows(rows, has_cat, i + 1,
                 row(strip(rows[i].name), strip(rows[i].unit), rows[i].price,
                     IF has_cat THEN lower(strip(rows[i].cat)) ELSE "rabota"))

\* Returns SERVICES, or raises RuntimeError.
load_services_from_xlsx(file) ==
    LET nonempty(services_loaded) ==
            IF DOMAIN services_loaded = {} THEN RuntimeError ELSE services_loaded
    IN  IF file = None THEN RuntimeError
        ELSE IF ~({"naimenovanie", "ed.izm", "tsena"} \subseteq file.columns)
        THEN RuntimeError
        ELSE nonempty(service_rows(SelectSeq(file.rows, LAMBDA r : r.price # None),
                                   "kategoriya" \in file.columns, 1, <<>>))

\* up[3:] of a code that starts with "FF_".
drop_ff(up) ==
    CASE up = "FF_PALLET" -> "PALLET"
      [] up = "FF_SHIP_BOX_A" -> "SHIP_BOX_A"
      [] up = "FF_SHIP_BOX_B" -> "SHIP_BOX_B"
      [] OTHER -> up

\* The loop over the rows of the FF sheet: acc holds FF_WAREHOUSES and CONST.
RECURSIVE ff_rows(_, _, _)
ff_rows(rows, i, acc) ==
    LET row(code, up, name, price) ==
            IF code = "" \/ lower(code) = "nan" THEN acc
            ELSE IF StartsWith(up, "FF_SHIP_BOX_")
            THEN IF name # ""
                 THEN [acc EXCEPT !.FF = Put(@, name, [ship_per_box |-> price])]
                 ELSE acc
            ELSE [acc EXCEPT !.CONST =
                     Put(@, IF StartsWith(up, "FF_") THEN drop_ff(up) ELSE up, price)]
    IN  IF i > Len(rows) THEN acc
        ELSE ff_rows(rows, i + 1,
                 row(strip(rows[i].code), upper(strip(rows[i].code)),
                     strip(rows[i].name), rows[i].price))

\* CONST.setdefault(key, value)
setdefault(dict, key, value) == dict @@ (key :> value)

\* tk_rows without the test for the constant of the hub leg: every row whose
\* code starts with TK_ makes a warehouse.
RECURSIVE tk_rows_hub_as_warehouse(_, _, _)
tk_rows_hub_as_warehouse(rows, i, acc) ==
    LET rated(wh, up, price, tk) ==
            IF Contains(up, "PALLET")
            THEN Put(tk, wh, [tk[wh] EXCEPT !.to_warehouse_per_pallet = Some(price)])
            ELSE IF Contains(up, "ENTRY")
            THEN Put(tk, wh, [tk[wh] EXCEPT !.entry_fee = price])
            ELSE Put(tk, wh, [tk[wh] EXCEPT !.to_warehouse_per_box = Some(price)])
        created(wh, tk) ==
            IF wh \notin DOMAIN tk
            THEN Put(tk, wh, [to_warehouse_per_box |-> None,
                              to_warehouse_per_pallet |-> None, entry_fee |-> FZero])
            ELSE tk
        row(code, up, name, price) ==
            IF code = "" \/ lower(code) = "nan" THEN acc
            ELSE IF ~StartsWith(up, "TK_") THEN acc
            ELSE IF name = "" THEN acc
            ELSE [acc EXCEPT !.TK = rated(name, up, price, created(name, @))]
    IN  IF i > Len(rows) THEN acc
        ELSE tk_rows_hub_as_warehouse(rows, i + 1,
                 row(strip(rows[i].code), upper(strip(rows[i].code)),
                     strip(rows[i].name), rows[i].price))

\* The loop over the rows of the TK sheet: acc holds TK_WAREHOUSES and CONST.
RECURSIVE tk_rows(_, _, _)
tk_rows(rows, i, acc) ==
    LET rated(wh, up, price, tk) ==
            IF Contains(up, "PALLET") \/ Contains(up, "PALLET (Cyrillic)")
            THEN Put(tk, wh, [tk[wh] EXCEPT !.to_warehouse_per_pallet = Some(price)])
            ELSE IF Contains(up, "ENTRY") \/ Contains(up, "ENTRY (Cyrillic)")
            THEN Put(tk, wh, [tk[wh] EXCEPT !.entry_fee = price])
            ELSE Put(tk, wh, [tk[wh] EXCEPT !.to_warehouse_per_box = Some(price)])
        created(wh, tk) ==
            IF wh \notin DOMAIN tk
            THEN Put(tk, wh, [to_warehouse_per_box |-> None,
                              to_warehouse_per_pallet |-> None, entry_fee |-> FZero])
            ELSE tk
        row(code, up, name, price) ==
            IF code = "" \/ lower(code) = "nan" THEN acc
            ELSE IF up \in {"TO_TK_PER_BOX", "TK_TO_TK_PER_BOX"}
            THEN [acc EXCEPT !.CONST = Put(@, "TO_TK_PER_BOX", price)]
            ELSE IF ~StartsWith(up, "TK_") THEN acc
            ELSE IF name = "" THEN acc
            ELSE [acc EXCEPT !.TK = rated(name, up, price, created(name, @))]
    IN  IF i > Len(rows) THEN acc
        ELSE tk_rows(rows, i + 1,
                 row(strip(rows[i].code), upper(strip(rows[i].code)),
                     strip(rows[i].name), rows[i].price))

\* Returns (FF_WAREHOUSES, TK_WAREHOUSES, CONST), or raises RuntimeError.
load_shipping_from_xlsx(file) ==
    LET defaults(consts) ==
            setdefault(setdefault(setdefault(setdefault(consts,
                "PALLET", FZero), "STRETCH", FZero),
                "PALLET_THRESHOLD_BOXES", FromInt(10)), "TO_TK_PER_BOX", FromInt(100))
        tk_loaded(ff_acc, tk_df) ==
            tk_rows(tk_df.rows, 1,
                    [FF |-> ff_acc.FF, TK |-> <<>>, CONST |-> defaults(ff_acc.CONST)])
        ff_loaded(ff_df, tk_df) ==
            IF Raised(ff_df) THEN ff_df
            ELSE IF Raised(tk_df) THEN tk_df
            ELSE tk_loaded(ff_rows(ff_df.rows, 1, [FF |-> <<>>, CONST |-> <<>>]), tk_df)
    IN  IF file = None THEN RuntimeError
        ELSE ff_loaded(need_cols(file.ff), need_cols(file.tk))

\* The columns that _need_cols requires of a sheet of shipping.xlsx.
ShippingColumns == {"kod", "naimenovanie", "ed.izm", "tsena"}

\* The rows of the FF sheet: two warehouses, a constant with the FF_ prefix and
\* one without, a row without a code, a row without a price.
FFRows ==
    {[code |-> "FF_SHIP_BOX_A", name |-> "wh1", price |-> FromInt(50)],
     [code |-> "ff_ship_box_b", name |-> " wh2 ", price |-> FromRat(71, 2)],
     [code |-> "FF_PALLET", name |-> "pallet", price |-> FromInt(350)],
     [code |-> "TK_A", name |-> "wh3", price |-> FromInt(80)],
     [code |-> "nan", name |-> "wh1", price |-> FromInt(1)],
     [code |-> "FF_SHIP_BOX_A", name |-> "wh2", price |-> None]}

\* The rows of the TK sheet: the three kinds of rate rows, a row with a blank
\* name, the constant of the hub leg, and a row whose code does not start with
\* TK_.
TKRows ==
    {[code |-> "TK_A", name |-> "wh1", price |-> FromInt(30)],
     [code |-> "TK_A_PALLET", name |-> "wh3", price |-> FromInt(400)],
     [code |-> "TK_A_ENTRY", name |-> "wh3", price |-> FromInt(500)],
     [code |-> "tk_b", name |-> " ", price |-> FromRat(51, 2)],
     [code |-> "TK_TO_TK_PER_BOX", name |-> "hub", price |-> FromInt(90)],
     [code |-> "PALLET", name |-> "wh5", price |-> FromInt(1)]}

\* The rows of services.xlsx: a unit left empty, a category in capitals, a
\* category that is neither of the two, a row without a name, a row without a
\* price.
ServiceRows ==
    {[name |-> "markirovka", unit |-> "sht", price |-> FromRat(1, 10), cat |-> "rabota"],
     [name |-> "paket", unit |-> "nan", price |-> FromRat(3, 10), cat |-> "Raskhodniki"],
     [name |-> "upakovka", unit |-> "sht", price |-> FromRat(2, 10), cat |-> "drugoe"],
     [name |-> "nan", unit |-> "sht", price |-> FromInt(1), cat |-> "rabota"],
     [name |-> "plenka", unit |-> "m", price |-> None, cat |-> "raskhodniki"]}

\* shipping.xlsx: missing, a sheet without a required column, or two sheets of
\* rows.
ShippingFiles ==
    {None,
     [ff |-> [columns |-> ShippingColumns \ {"tsena"}, rows |-> <<>>],
      tk |-> [columns |-> ShippingColumns, rows |-> <<>>]],
     [ff |-> [columns |-> ShippingColumns, rows |-> <<>>],
      tk |-> [columns |-> ShippingColumns \ {"kod"}, rows |-> <<>>]]}
    \cup {[ff |-> [columns |-> ShippingColumns, rows |-> f],
           tk |-> [columns |-> ShippingColumns, rows |-> t]] :
            f \in SeqsWithin(FFRows, MaxFFRows), t \in SeqsWithin(TKRows, MaxTKRows)}

\* services.xlsx: missing, without the price column, or rows with or without
\* the category column.
ServiceFiles ==
    {None,
     [columns |-> {"naimenovanie", "ed.izm", "kategoriya"}, rows |-> <<>>]}
    \cup {[columns |-> {"naimenovanie", "ed.izm", "tsena"} \cup c, rows |-> r] :
            c \in {{}, {"kategoriya"}}, r \in SeqsWithin(ServiceRows, MaxServiceRows)}

\* The files the process starts with: every shipping.xlsx with one services.xlsx,
\* and every services.xlsx with one shipping.xlsx.
StartupFiles ==
    {[services |-> sv, shipping |-> sh] :
        sv \in {[columns |-> {"naimenovanie", "ed.izm", "tsena"},
                 rows |-> <<CHOOSE r \in ServiceRows : r.name = "markirovka">>]},
        sh \in ShippingFiles}
    \cup {[services |-> sv, shipping |-> sh] :
        sv \in ServiceFiles,
        sh \in {[ff |-> [columns |-> ShippingColumns,
                         rows |-> <<CHOOSE r \in FFRows : r.name = "wh1"
                                                        /\ r.code = "FF_SHIP_BOX_A">>],
                 tk |-> [columns |-> ShippingColumns, rows |-> <<>>]]}}

\* The process before DATA LOAD: the globals are not assigned yet.
LoadInit ==
    /\ SERVICES = <<>>
    /\ FF_WAREHOUSES = <<>>
    /\ TK_WAREHOUSES = <<>>
    /\ CONST = <<>>
    /\ call = Idle
    /\ state = [user \in {"user1"} |-> NoState]
    /\ storage = [user \in {"user1"} |-> <<>>]
    /\ manager_chat = <<>>
    /\ answer = <<>>
    /\ pc = "load"

\* DATA LOAD without "if not WAREHOUSE_NAMES: raise": the process serves with
\* whatever the loaders returned.
DataLoad_no_warehouse_check ==
    /\ pc = "load"
    /\ \E files \in StartupFiles :
         LET loaded(services_loaded, shipping) ==
                 IF Raised(services_loaded)
                 THEN pc' = "failed" /\ UNCHANGED catalog
                 ELSE IF Raised(shipping)
                 THEN /\ pc' = "failed"
                      /\ SERVICES' = services_loaded
                      /\ UNCHANGED <<FF_WAREHOUSES, TK_WAREHOUSES, CONST>>
                 ELSE /\ SERVICES' = services_loaded
                      /\ FF_WAREHOUSES' = shipping.FF
                      /\ TK_WAREHOUSES' = shipping.TK
                      /\ CONST' = shipping.CONST
                      /\ pc' = "polling"
         IN  /\ loaded(load_services_from_xlsx(files.services),
                       load_shipping_from_xlsx(files.shipping))
             /\ call' = [op |-> "data_load", files |-> files]
    /\ UNCHANGED session

\* DATA LOAD: the two loaders, WAREHOUSE_NAMES, and the RuntimeError when there
\* is no warehouse.  A global is assigned when its loader has returned.
DataLoad ==
    /\ pc = "load"
    /\ \E files \in StartupFiles :
         LET loaded(services_loaded, shipping) ==
                 IF Raised(services_loaded)
                 THEN pc' = "failed" /\ UNCHANGED catalog
                 ELSE IF Raised(shipping)
                 THEN /\ pc' = "failed"
                      /\ SERVICES' = services_loaded
                      /\ UNCHANGED <<FF_WAREHOUSES, TK_WAREHOUSES, CONST>>
                 ELSE /\ SERVICES' = services_loaded
                      /\ FF_WAREHOUSES' = shipping.FF
                      /\ TK_WAREHOUSES' = shipping.TK
                      /\ CONST' = shipping.CONST
                      /\ pc' = IF DOMAIN shipping.FF \cup DOMAIN shipping.TK = {}
                               THEN "failed" ELSE "polling"
         IN  /\ loaded(load_services_from_xlsx(files.services),
                       load_shipping_from_xlsx(files.shipping))
             /\ call' = [op |-> "data_load", files |-> files]
    /\ UNCHANGED session

\* The process loads the catalog; once it polls, users start sessions.
LoadNext ==
    \/ DataLoad
    \/ \E user \in Users : cmd_start(user)
    \/ \E user \in Users : new_calc(user)

LoadSpec == LoadInit /\ [][LoadNext]_vars

(***************************************************************************)
(* Properties of the loaded catalog                                        *)
(***************************************************************************)

\* C19: after the load, no warehouse name is a key of both FF_WAREHOUSES and
\* TK_WAREHOUSES.
CE_C19 ==
    pc = "polling" => DOMAIN FF_WAREHOUSES \cap DOMAIN TK_WAREHOUSES = {}

\* C20: after the load, every record of TK_WAREHOUSES has a per-box rate or a
\* per-pallet rate.
CE_C20 ==
    pc = "polling" =>
        \A wh \in DOMAIN TK_WAREHOUSES :
            \/ TK_WAREHOUSES[wh].to_warehouse_per_box # None
            \/ TK_WAREHOUSES[wh].to_warehouse_per_pallet # None

\* The rows of a sheet of the loaded shipping.xlsx.
SheetRows(sheet) == {sheet.rows[i] : i \in 1..Len(sheet.rows)}

\* A row of the FF sheet that names a warehouse, a row of the TK sheet that
\* names one, and the rows that carry a constant.
IsFFWarehouseRow(r) == StartsWith(upper(strip(r.code)), "FF_SHIP_BOX_")

IsHubConstRow(r) == upper(strip(r.code)) \in {"TO_TK_PER_BOX", "TK_TO_TK_PER_BOX"}

IsTKWarehouseRow(r) == StartsWith(upper(strip(r.code)), "TK_") /\ ~IsHubConstRow(r)

\* C21: a name is in WAREHOUSE_NAMES only if a row of the FF sheet whose code
\* starts with FF_SHIP_BOX_ or a row of the TK sheet whose code starts with TK_
\* carries it, the rows TO_TK_PER_BOX / TK_TO_TK_PER_BOX not counted: a row that
\* carries a constant adds no warehouse.
Thm_C21 ==
    (call.op = "data_load" /\ pc = "polling") =>
        \A n \in WAREHOUSE_NAMES :
            \/ \E r \in SheetRows(call.files.shipping.ff) :
                  IsFFWarehouseRow(r) /\ strip(r.name) = n
            \/ \E r \in SheetRows(call.files.shipping.tk) :
                  IsTKWarehouseRow(r) /\ strip(r.name) = n

\* The sheets hold a constant on each sheet, the one of the TK sheet under the
\* code TK_TO_TK_PER_BOX, and a warehouse; the constants are set and their names
\* are no warehouses.
Wit_C21 ==
    /\ call.op = "data_load"
    /\ pc = "polling"
    /\ \E r \in SheetRows(call.files.shipping.tk) :
          r.code = "TK_TO_TK_PER_BOX" /\ r.name \notin WAREHOUSE_NAMES
                                      /\ CONST["TO_TK_PER_BOX"] = r.price
    /\ \E r \in SheetRows(call.files.shipping.ff) :
          r.code = "FF_PALLET" /\ r.name \notin WAREHOUSE_NAMES
                               /\ CONST["PALLET"] = r.price
    /\ WAREHOUSE_NAMES = {"wh1"}

\* A row of services.xlsx that the loader keeps, and the rows of shipping.xlsx
\* that make a warehouse.
IsServiceRow(r) == r.price # None /\ strip(r.name) # "" /\ lower(strip(r.name)) # "nan"

MakesFFWarehouse(r) == r.price # None /\ IsFFWarehouseRow(r) /\ strip(r.name) # ""

MakesTKWarehouse(r) == r.price # None /\ IsTKWarehouseRow(r) /\ strip(r.name) # ""

\* The files lack a required column, give no service, or give no warehouse.
MissingColumn(files) ==
    \/ /\ files.services # None
       /\ ~({"naimenovanie", "ed.izm", "tsena"} \subseteq files.services.columns)
    \/ /\ files.shipping # None
       /\ \/ ~(ShippingColumns \subseteq files.shipping.ff.columns)
          \/ ~(ShippingColumns \subseteq files.shipping.tk.columns)

ZeroServices(files) ==
    /\ files.services # None
    /\ \A r \in SheetRows(files.services) : ~IsServiceRow(r)

ZeroWarehouses(files) ==
    /\ files.shipping # None
    /\ \A r \in SheetRows(files.shipping.ff) : ~MakesFFWarehouse(r)
    /\ \A r \in SheetRows(files.shipping.tk) : ~MakesTKWarehouse(r)

\* C22: DATA LOAD fails, and the process never polls, when a required column is
\* missing, when no service is loaded or when no warehouse is loaded; a process
\* that polls, and so every session a handler has started, has a non-empty
\* SERVICES and a non-empty WAREHOUSE_NAMES.
Thm_C22 ==
    /\ call.op = "data_load" =>
          ((MissingColumn(call.files) \/ ZeroServices(call.files)
                \/ ZeroWarehouses(call.files)) => pc = "failed")
    /\ pc = "polling" => DOMAIN SERVICES # {} /\ WAREHOUSE_NAMES # {}
    /\ \A user \in Users : state[user] # NoState => pc = "polling"

\* Both files are there with every column, a service is loaded and the FF sheet
\* sets a constant, but no row makes a warehouse: the load fails.
Wit_C22 ==
    /\ call.op = "data_load"
    /\ pc = "failed"
    /\ ~MissingColumn(call.files)
    /\ ZeroWarehouses(call.files)
    /\ DOMAIN SERVICES = {"markirovka"}
    /\ "pallet" \in {r.name : r \in SheetRows(call.files.shipping.ff)}
    /\ "hub" \in {r.name : r \in SheetRows(call.files.shipping.tk)}

=============================================================================
